---- MODULE Spec2Model ----
(***************************************************************************)
(* Identity, session and federation core of safatanc-connect-core.         *)
(*                                                                         *)
(* The persistent state is the three tables the core writes (users,        *)
(* verification_tokens, user_oauth_connections) plus the administratively  *)
(* configured oauth_providers.  Every request handler is a process that    *)
(* runs from one `.await` on the database (or on the identity provider) to *)
(* the next; one action is one such step, so that steps of concurrent      *)
(* requests interleave exactly where the code can be preempted.            *)
(*                                                                         *)
(* Time is counted in hours: 3600 s = 1, 86400 s = 24.                     *)
(***************************************************************************)
EXTENDS Integers, Sequences, FiniteSets, TLC

VARIABLES
    now,        \* the clock read by Utc::now() and by SQL NOW()
    users,      \* table users: sequence of rows, a row's id is its index
    tokens,     \* table verification_tokens: set of rows
    tokenSeq,   \* number of verification_tokens ids handed out so far
    conns,      \* table user_oauth_connections: set of rows
    providers,  \* table oauth_providers: the rows configured there
    procs,      \* per request process: position in its handler and locals
    calls,      \* number of requests started so far
    hist,       \* returned requests: what was asked and what was answered
    faults      \* number of database/provider failures injected so far

vars == <<now, users, tokens, tokenSeq, conns, providers, procs, calls, hist, faults>>

-----------------------------------------------------------------------------
(* Bounds of the model *)

MaxTime == 2
MaxCalls == 2
MaxFaults == 1

Procs == {"p1", "p2"}

-----------------------------------------------------------------------------
(* Values *)

\* Option<T>: None is the empty set, Some(x) is {x}.
None == {}
Some(x) == {x}
IsNone(o) == o = {}
IsSome(o) == o # {}
Unwrap(o) == CHOOSE x \in o : TRUE

TOKEN_TYPE_EMAIL_VERIFICATION == "email_verification"
TOKEN_TYPE_PASSWORD_RESET == "password_reset"
TokenTypes == {TOKEN_TYPE_EMAIL_VERIFICATION, TOKEN_TYPE_PASSWORD_RESET}

\* expires_in of the two issuance paths, in hours
PasswordResetExpiresIn == 1
EmailVerificationExpiresIn == 24

\* The strings generate_random_token can return (32 random alphanumerics in
\* the code; a small pool here, so that a collision can happen).
TokenStrings == {"tokA", "tokB", "tokC"}

\* generate_random_token(32) as the password of a provisioned account
RandomPasswords == {"rnd32"}

Passwords == {"Passw0rd!", "N3wSecret#", "short"}
\* SaltString::generate: the salts a hash can draw, and the one drawn by the
\* requests of a run
Salts == {"s1", "s2"}
FreshSalts == {"s1"}

\* An email address "local@domain" and a username "base" or "base_n" are kept
\* as their parts, so that split('@') and format!("{}_{}", base, n) can be
\* computed; suffix 0 stands for the bare base.
Email(local, domain) == [local |-> local, domain |-> domain]
Username(base, n) == [base |-> base, suffix |-> n]

\* Result<T, AppError>
Ok == [kind |-> "Ok", msg |-> ""]
Err(kind, msg) == [kind |-> kind, msg |-> msg]

\* DatabaseResult<T>
DbOk == "Ok"
DbNotFound == "NotFound"
DbDuplicate == "Duplicate"
DbConnectionError == "ConnectionError"

\* AppError::Database(e): the wrapped DatabaseError is part of the error
AppDatabase(e) == Err("Database", e)

-----------------------------------------------------------------------------
(* CredentialVerifier *)

\* Argon2 with a given salt: a digest determined by password and salt, and
\* (as for the real function, up to negligible probability) by nothing less.
Argon2Digest(password, salt) == <<"digest", password, salt>>

\* hash_password with the salt SaltString::generate drew: the PHC string
\* "$argon2id$<params>$<salt>$<digest>" as its fields.
hash_password(password, salt) ==
    <<"argon2id", "m=19456,t=2,p=1", salt, Argon2Digest(password, salt)>>

\* PasswordHash::new: a stored string parses iff it has the PHC fields.
PasswordHashParses(hash) == Len(hash) = 4 /\ hash[1] = "argon2id"

\* what verify_password answers if the recomputed digest is not compared
verify_password_NoCompare(password, hash) ==
    IF ~PasswordHashParses(hash)
    THEN Err("Internal", "Format hash password invalid")
    ELSE Ok

\* verify_password: Internal for a malformed hash, Authentication for a
\* mismatch, Ok(()) when the recomputed digest equals the stored one.
verify_password(password, hash) ==
    IF ~PasswordHashParses(hash)
    THEN Err("Internal", "Format hash password invalid")
    ELSE IF Argon2Digest(password, hash[3]) = hash[4]
         THEN Ok
         ELSE Err("Authentication", "Email atau password salah")

\* validate_password_strength: at least 8 characters, an uppercase letter, a
\* digit and a special character.  HasCharClasses lists the model's passwords
\* that hold one of each class.
HasCharClasses == {"Passw0rd!", "N3wSecret#"}
validate_password_strength(password) ==
    Len(password) >= 8 /\ password \in HasCharClasses

-----------------------------------------------------------------------------
(* TokenRepository (table verification_tokens) *)

TokenRow(id, user_id, token, type, expires_at) ==
    [id |-> id, user_id |-> user_id, token |-> token, type |-> type,
     expires_at |-> expires_at, used_at |-> None]

\* verify_token without its condition on the type
VerifyTokenRows_AnyType(token, type) ==
    {r \in tokens : r.token = token /\ IsNone(r.used_at) /\ r.expires_at > now}

\* verify_token's SELECT: WHERE token = $1 AND type = $2 AND used_at IS NULL
\* AND expires_at > NOW()
VerifyTokenRows(token, type) ==
    {r \in tokens : /\ r.token = token
                    /\ r.type = type
                    /\ IsNone(r.used_at)
                    /\ r.expires_at > now}

\* mark_as_used without its condition on used_at: WHERE id = $2
MarkAsUsedRows_NoNullCheck(id) == {r \in tokens : r.id = id}

\* mark_as_used's UPDATE: WHERE id = $2 AND used_at IS NULL
MarkAsUsedRows(id) == {r \in tokens : r.id = id /\ IsNone(r.used_at)}

\* the table after mark_as_used's UPDATE ... SET used_at = $1
MarkAsUsed(id) ==
    {IF r \in MarkAsUsedRows(id) THEN [r EXCEPT !.used_at = Some(now)] ELSE r
     : r \in tokens}

\* invalidate_by_user_and_type without its condition on used_at
InvalidateRows_NoNullCheck(user_id, type) ==
    {r \in tokens : r.user_id = Some(user_id) /\ r.type = type}

\* invalidate_by_user_and_type's UPDATE: WHERE user_id = $2 AND type = $3 AND
\* used_at IS NULL
InvalidateRows(user_id, type) ==
    {r \in tokens : r.user_id = Some(user_id) /\ r.type = type /\ IsNone(r.used_at)}

InvalidateByUserAndType(user_id, type) ==
    {IF r \in InvalidateRows(user_id, type)
     THEN [r EXCEPT !.used_at = Some(now)] ELSE r : r \in tokens}

\* a DELETE that spares the redeemed tokens
DeleteExpiredRows_Unredeemed == {r \in tokens : r.expires_at < now /\ IsNone(r.used_at)}

\* a DELETE that also takes the redeemed tokens, expired or not
DeleteExpiredRows_Redeemed == {r \in tokens : r.expires_at < now \/ IsSome(r.used_at)}

\* delete_expired's DELETE: WHERE expires_at < NOW()
DeleteExpiredRows == {r \in tokens : r.expires_at < now}

\* create's INSERT under the unique key verification_tokens_token_key
TokenKeyTaken(token) == \E r \in tokens : r.token = token

-----------------------------------------------------------------------------
(* UserRepository (table users) *)

UserIds == 1..Len(users)

\* an account lookup that finds no row
LiveUser_None(id) == FALSE

\* the rows a SELECT/UPDATE ... WHERE id = $1 AND deleted_at IS NULL sees
LiveUser(id) == id \in UserIds /\ ~users[id].deleted

\* a lookup that does not compare the email
FindByEmail_AnyAccount(email) == {id \in UserIds : ~users[id].deleted}

\* find_by_email: WHERE email = $1 AND deleted_at IS NULL
FindByEmail(email) == {id \in UserIds : users[id].email = email /\ ~users[id].deleted}

\* find_by_username: WHERE username = $1 AND deleted_at IS NULL
FindByUsername(username) ==
    {id \in UserIds : users[id].username = username /\ ~users[id].deleted}

\* the rows of users with a given email, deleted or not
AccountsWithEmail(email) == {id \in UserIds : users[id].email = email}

\* an update_email_verification that writes nothing
UpdateEmailVerification_NoWrite(id, verified) == users

\* update_last_login: SET last_login_at = now() WHERE id = $1
UpdateLastLogin_NoWrite(id) == users

UpdateLastLogin(id) == [users EXCEPT ![id].last_login_at = Some(now)]

\* update_email_verification: SET is_email_verified = $2 WHERE id = $1
UpdateEmailVerification(id, verified) ==
    [users EXCEPT ![id].is_email_verified = verified]

-----------------------------------------------------------------------------
(* Strings of the OAuth round trip: a string is the sequence of its
   characters *)

\* the first position at which sub occurs in s, 0 if it does not
Find(s, sub) ==
    LET hits == {i \in 1..(Len(s) - Len(sub) + 1) :
                    SubSeq(s, i, i + Len(sub) - 1) = sub}
    IN  IF hits = {} THEN 0 ELSE CHOOSE i \in hits : \A j \in hits : i <= j

\* str::contains
Contains(s, sub) == Find(s, sub) # 0

\* s.split(sub): parts[0], and what follows the first occurrence
SplitHead(s, sub) == IF Contains(s, sub) THEN SubSeq(s, 1, Find(s, sub) - 1) ELSE s
SplitTail(s, sub) == SubSeq(s, Find(s, sub) + Len(sub), Len(s))

\* s.split(sub).collect()[1], for s that contains sub
SplitSecond(s, sub) == SplitHead(SplitTail(s, sub), sub)

\* s.replacen(old, new, 1)
Replacen(s, old, new) ==
    IF Contains(s, old)
    THEN SplitHead(s, old) \o new \o SplitTail(s, old)
    ELSE s

\* urlencoding: every byte except letters, digits, '-', '_', '.', '~' is
\* written as '%' and two hexadecimal digits
Reserved == {"/", ":", "?", "=", "&", "%"}
PercentCode(c) ==
    CASE c = "/" -> <<"%", "2", "F">>
      [] c = ":" -> <<"%", "3", "A">>
      [] c = "?" -> <<"%", "3", "F">>
      [] c = "=" -> <<"%", "3", "D">>
      [] c = "&" -> <<"%", "2", "6">>
      [] c = "%" -> <<"%", "2", "5">>

RECURSIVE urlencoding_encode(_)
urlencoding_encode(s) ==
    IF s = <<>> THEN <<>>
    ELSE (IF Head(s) \in Reserved THEN PercentCode(Head(s)) ELSE <<Head(s)>>)
             \o urlencoding_encode(Tail(s))

\* urlencoding::decode: '%' and two hexadecimal digits become the byte they
\* name; a '%' that is not followed by two digits stays as it is
RECURSIVE urlencoding_decode(_)
urlencoding_decode(s) ==
    IF s = <<>> THEN <<>>
    ELSE LET coded == {c \in Reserved : Len(s) >= 3 /\ SubSeq(s, 1, 3) = PercentCode(c)}
         IN  IF coded # {}
             THEN <<CHOOSE c \in coded : TRUE>> \o urlencoding_decode(SubSeq(s, 4, Len(s)))
             ELSE <<Head(s)>> \o urlencoding_decode(Tail(s))

StateParam == <<"s", "t", "a", "t", "e", "=">>
RedirectMarker == <<"_", "r", "e", "d", "i", "r", "e", "c", "t", "_">>
RedirectUriParam == <<"r", "e", "d", "i", "r", "e", "c", "t", "_", "u", "r", "i", "=">>
Amp == <<"&">>

\* config.email.frontend_url, and the path and the token parameters of the
\* redirect that ends a federated sign-in
FrontendUrl == <<"h", ":", "/", "/", "f", "e">>
AuthCallbackPath == <<"/", "a", "u", "t", "h", "/", "c", "a", "l", "l", "b", "a", "c", "k", "?">>
TokenParams(first) ==
    (IF first THEN <<>> ELSE Amp)
        \o <<"t", "o", "k", "e", "n", "=", "J", "&",
             "r", "e", "f", "r", "e", "s", "h", "_", "t", "o", "k", "e", "n", "=", "R">>

\* oauth_callback: the target carried by the state parameter of the query
CustomRedirect(state) ==
    IF IsNone(state) THEN None
    ELSE IF Contains(Unwrap(state), RedirectMarker)
         THEN Some(urlencoding_decode(SplitSecond(Unwrap(state), RedirectMarker)))
         ELSE Some(urlencoding_decode(Unwrap(state)))

\* oauth_callback: the address the signed-in browser is redirected to
redirect_url(state, redirect_uri) ==
    LET custom_redirect == CustomRedirect(state)
    IN  IF IsSome(redirect_uri)
        THEN FrontendUrl \o AuthCallbackPath \o RedirectUriParam
                 \o urlencoding_encode(Unwrap(redirect_uri)) \o TokenParams(FALSE)
        ELSE IF IsSome(custom_redirect)
             THEN FrontendUrl \o AuthCallbackPath \o RedirectUriParam
                      \o urlencoding_encode(Unwrap(custom_redirect)) \o TokenParams(FALSE)
             ELSE FrontendUrl \o AuthCallbackPath \o TokenParams(TRUE)

-----------------------------------------------------------------------------
(* Request processes *)

NoSuchUser == Err("NotFound", "User not found")

Idle == [pc |-> "idle", op |-> "none", n |-> 0, token |-> "", tid |-> 0, uid |-> 0,
         password |-> "", hash |-> <<>>, email |-> Email("", ""),
         username |-> Username("", 0), provider |-> "", sub |-> "", wrote |-> {},
         candidate |-> "", jwt |-> None, session |-> {}, at |-> 0,
         state |-> None, redirect_uri |-> None, url |-> None,
         service |-> "", error |-> None, user_info |-> None]

\* the address in the response: the authorization URL of oauth_start, the
\* Redirect::to of an oauth_callback that signed the user in
ResponseUrl(loc, res) ==
    IF loc.op = "oauth_callback" /\ res = Ok
    THEN Some(redirect_url(loc.state, loc.redirect_uri))
    ELSE loc.url

\* what is kept of a returned request: which call it was, the operation, its
\* inputs, the token row and the account it worked on, the tables it wrote,
\* and the answer
Returned(loc, res) ==
    [n |-> loc.n, op |-> loc.op, token |-> loc.token, tid |-> loc.tid, uid |-> loc.uid,
     email |-> loc.email, provider |-> loc.provider, sub |-> loc.sub,
     wrote |-> loc.wrote,
     password |-> loc.password, candidate |-> loc.candidate, hash |-> loc.hash,
     jwt |-> loc.jwt, session |-> loc.session, at |-> loc.at,
     state |-> loc.state, redirect_uri |-> loc.redirect_uri,
     url |-> ResponseUrl(loc, res), service |-> loc.service,
     error |-> loc.error, user_info |-> loc.user_info, res |-> res]

\* a handler returns: the answer is recorded and the process is idle again
ReturnAs(p, loc, res) ==
    /\ hist' = hist \cup {Returned(loc, res)}
    /\ procs' = [procs EXCEPT ![p] = Idle]
    /\ UNCHANGED calls

Return(p, res) == ReturnAs(p, procs[p], res)

\* a database statement either runs or fails with a connection error
DbOutcomes == {DbOk, DbConnectionError}
Inject(outcome) ==
    /\ outcome # DbOk => faults < MaxFaults
    /\ faults' = IF outcome = DbOk THEN faults ELSE faults + 1

\* a request to the identity provider either is answered or fails
Request(answered) ==
    /\ ~answered => faults < MaxFaults
    /\ faults' = IF answered THEN faults ELSE faults + 1

CanCall(p) == procs[p].pc = "idle" /\ calls < MaxCalls

\* the locals of a request that starts now
Call(op) == [Idle EXCEPT !.op = op, !.n = calls + 1]

\* the first step of a handler: the request is counted and its locals set
Begin(p, loc, pc) ==
    /\ calls' = calls + 1
    /\ procs' = [procs EXCEPT ![p] = [loc EXCEPT !.pc = pc]]
    /\ UNCHANGED hist

\* a handler that returns from its first step
BeginReturn(p, loc, res) ==
    /\ calls' = calls + 1
    /\ hist' = hist \cup {Returned(loc, res)}
    /\ UNCHANGED procs

Goto(p, pc) ==
    /\ procs' = [procs EXCEPT ![p].pc = pc]
    /\ UNCHANGED <<hist, calls>>

\* the next step of a handler whose locals changed
Continue(p, loc, pc) ==
    /\ procs' = [procs EXCEPT ![p] = [loc EXCEPT !.pc = pc]]
    /\ UNCHANGED <<hist, calls>>

-----------------------------------------------------------------------------
(* AuthService::verify_email_token *)

InvalidVerificationToken == Err("InvalidToken", "Invalid or expired verification token")
InvalidResetToken == Err("InvalidToken", "Invalid or expired reset token")
TokenWithoutUser == Err("InvalidToken", "Token is not associated with a user")

\* token_repo.verify_token(token, TOKEN_TYPE_EMAIL_VERIFICATION), any error
\* mapped to InvalidToken; then the user_id check
VerifyEmailToken_Verify(p) ==
    \E token \in TokenStrings, outcome \in DbOutcomes :
        LET loc == [Call("verify_email_token") EXCEPT !.token = token]
            rows == VerifyTokenRows(token, TOKEN_TYPE_EMAIL_VERIFICATION)
            row == CHOOSE r \in rows : TRUE
        IN  /\ CanCall(p)
            /\ Inject(outcome)
            /\ IF outcome # DbOk \/ rows = {}
               THEN BeginReturn(p, loc, InvalidVerificationToken)
               ELSE IF IsNone(row.user_id)
                    THEN BeginReturn(p, [loc EXCEPT !.tid = row.id], TokenWithoutUser)
                    ELSE Begin(p, [loc EXCEPT !.tid = row.id, !.uid = Unwrap(row.user_id)],
                               "ve_mark")
            /\ UNCHANGED <<now, users, tokens, tokenSeq, conns, providers>>

\* token_repo.mark_as_used(verification_token.id), errors as Database
VerifyEmailToken_Mark(p) ==
    \E outcome \in DbOutcomes :
        /\ procs[p].pc = "ve_mark"
        /\ Inject(outcome)
        /\ IF outcome # DbOk
           THEN Return(p, AppDatabase(outcome)) /\ UNCHANGED tokens
           ELSE IF MarkAsUsedRows(procs[p].tid) = {}
                THEN Return(p, AppDatabase(DbNotFound)) /\ UNCHANGED tokens
                ELSE tokens' = MarkAsUsed(procs[p].tid) /\ Goto(p, "ve_user")
        /\ UNCHANGED <<now, users, tokenSeq, conns, providers>>

\* user_management.verify_email(user_id): update_email_verification(id, true)
VerifyEmailToken_SetVerified(p) ==
    \E outcome \in DbOutcomes :
        /\ procs[p].pc = "ve_user"
        /\ Inject(outcome)
        /\ IF outcome # DbOk
           THEN Return(p, AppDatabase(outcome)) /\ UNCHANGED users
           ELSE IF ~LiveUser(procs[p].uid)
                THEN Return(p, Err("NotFound", "User tidak ditemukan")) /\ UNCHANGED users
                ELSE /\ users' = UpdateEmailVerification(procs[p].uid, TRUE)
                     /\ Return(p, Ok)
        /\ UNCHANGED <<now, tokens, tokenSeq, conns, providers>>

-----------------------------------------------------------------------------
(* AuthService::reset_password *)

\* validate_password_strength, then token_repo.verify_token(token,
\* TOKEN_TYPE_PASSWORD_RESET), the user_id check and hash_password
ResetPassword_Verify(p) ==
    \E token \in TokenStrings, password \in Passwords, salt \in FreshSalts,
       outcome \in DbOutcomes :
        LET loc == [Call("reset_password") EXCEPT !.token = token, !.password = password]
            rows == VerifyTokenRows(token, TOKEN_TYPE_PASSWORD_RESET)
            row == CHOOSE r \in rows : TRUE
        IN  /\ CanCall(p)
            /\ IF ~validate_password_strength(password)
               THEN /\ outcome = DbOk
                    /\ UNCHANGED faults
                    /\ BeginReturn(p, loc, Err("Validation", "password"))
               ELSE /\ Inject(outcome)
                    /\ IF outcome # DbOk \/ rows = {}
                       THEN BeginReturn(p, loc, InvalidResetToken)
                       ELSE IF IsNone(row.user_id)
                            THEN BeginReturn(p, [loc EXCEPT !.tid = row.id], TokenWithoutUser)
                            ELSE Begin(p, [loc EXCEPT !.tid = row.id,
                                                      !.uid = Unwrap(row.user_id),
                                                      !.hash = hash_password(password, salt)],
                                       "rp_update")
            /\ UNCHANGED <<now, users, tokens, tokenSeq, conns, providers>>

\* user_repo.update_password(user_id, &password_hash), errors as Database
ResetPassword_Update(p) ==
    \E outcome \in DbOutcomes :
        /\ procs[p].pc = "rp_update"
        /\ Inject(outcome)
        /\ IF outcome # DbOk
           THEN Return(p, AppDatabase(outcome)) /\ UNCHANGED users
           ELSE IF ~LiveUser(procs[p].uid)
                THEN Return(p, AppDatabase(DbNotFound)) /\ UNCHANGED users
                ELSE /\ users' = [users EXCEPT ![procs[p].uid].password_hash = procs[p].hash]
                     /\ Goto(p, "rp_mark")
        /\ UNCHANGED <<now, tokens, tokenSeq, conns, providers>>

\* token_repo.mark_as_used(verification_token.id), errors as Database
ResetPassword_Mark(p) ==
    \E outcome \in DbOutcomes :
        /\ procs[p].pc = "rp_mark"
        /\ Inject(outcome)
        /\ IF outcome # DbOk
           THEN Return(p, AppDatabase(outcome)) /\ UNCHANGED tokens
           ELSE IF MarkAsUsedRows(procs[p].tid) = {}
                THEN Return(p, AppDatabase(DbNotFound)) /\ UNCHANGED tokens
                ELSE tokens' = MarkAsUsed(procs[p].tid) /\ Return(p, Ok)
        /\ UNCHANGED <<now, users, tokenSeq, conns, providers>>

-----------------------------------------------------------------------------
(* The clock and the scheduler *)

Tick ==
    /\ now < MaxTime
    /\ now' = now + 1
    /\ UNCHANGED <<users, tokens, tokenSeq, conns, providers, procs, calls, hist, faults>>

\* SchedulerService::run_token_cleanup: one run of delete_expired; a failed
\* run is logged and changes nothing
RunTokenCleanup ==
    \E outcome \in DbOutcomes :
        /\ Inject(outcome)
        /\ tokens' = IF outcome = DbOk THEN tokens \ DeleteExpiredRows ELSE tokens
        /\ tokens' # tokens \/ outcome # DbOk
        /\ UNCHANGED <<now, users, tokenSeq, conns, providers, procs, calls, hist>>

-----------------------------------------------------------------------------
(* Redemption of tokens issued earlier: accounts alice and bob, alice holding
   an email_verification token and a password_reset token. *)

UserRow(email, username, password_hash, verified, active) ==
    [email |-> email, username |-> username, password_hash |-> password_hash,
     is_email_verified |-> verified, is_active |-> active, global_role |-> "user",
     last_login_at |-> None, deleted |-> FALSE]

\* salts drawn before the model starts: a later hash never draws them again
Alice == UserRow(Email("alice", "x.com"), Username("alice", 0), hash_password("Passw0rd!", "s0a"), FALSE, TRUE)
Bob == UserRow(Email("bob", "x.com"), Username("bob", 0), hash_password("Passw0rd!", "s0b"), TRUE, TRUE)

InitRedeem ==
    /\ now = 0
    /\ users = <<Alice, Bob>>
    /\ tokens = {TokenRow(1, Some(1), "tokA", TOKEN_TYPE_EMAIL_VERIFICATION, 2),
                 TokenRow(2, Some(1), "tokB", TOKEN_TYPE_PASSWORD_RESET, 1)}
    /\ tokenSeq = 2
    /\ conns = {}
    /\ providers = {}
    /\ procs = [p \in Procs |-> Idle]
    /\ calls = 0
    /\ hist = {}
    /\ faults = 0

NextRedeem ==
    \/ \E p \in Procs : VerifyEmailToken_Verify(p)
    \/ \E p \in Procs : VerifyEmailToken_Mark(p)
    \/ \E p \in Procs : VerifyEmailToken_SetVerified(p)
    \/ \E p \in Procs : ResetPassword_Verify(p)
    \/ \E p \in Procs : ResetPassword_Update(p)
    \/ \E p \in Procs : ResetPassword_Mark(p)
    \/ Tick
    \/ RunTokenCleanup

SpecRedeem == InitRedeem /\ [][NextRedeem]_vars

-----------------------------------------------------------------------------
(* Email verification alone: the unverified alice and the already verified
   bob each hold an email_verification token. *)

InitVerify ==
    /\ now = 0
    /\ users = <<Alice, Bob>>
    /\ tokens = {TokenRow(1, Some(1), "tokA", TOKEN_TYPE_EMAIL_VERIFICATION, 2),
                 TokenRow(2, Some(2), "tokB", TOKEN_TYPE_EMAIL_VERIFICATION, 2)}
    /\ tokenSeq = 2
    /\ conns = {}
    /\ providers = {}
    /\ procs = [p \in Procs |-> Idle]
    /\ calls = 0
    /\ hist = {}
    /\ faults = 0

NextVerify ==
    \/ \E p \in Procs : VerifyEmailToken_Verify(p)
    \/ \E p \in Procs : VerifyEmailToken_Mark(p)
    \/ \E p \in Procs : VerifyEmailToken_SetVerified(p)
    \/ Tick
    \/ RunTokenCleanup

SpecVerify == InitVerify /\ [][NextVerify]_vars

-----------------------------------------------------------------------------
(* Token cleanup next to redemption: alice's email_verification token expires
   at 0, bob's was redeemed at 0 and expires at 1, alice's password_reset
   token stays valid throughout. *)

InitCleanup ==
    /\ now = 0
    /\ users = <<Alice, Bob>>
    /\ tokens = {TokenRow(1, Some(1), "tokA", TOKEN_TYPE_EMAIL_VERIFICATION, 0),
                 [TokenRow(2, Some(2), "tokB", TOKEN_TYPE_EMAIL_VERIFICATION, 1)
                      EXCEPT !.used_at = Some(0)],
                 TokenRow(3, Some(1), "tokC", TOKEN_TYPE_EMAIL_VERIFICATION,
                          EmailVerificationExpiresIn)}
    /\ tokenSeq = 3
    /\ conns = {}
    /\ providers = {}
    /\ procs = [p \in Procs |-> Idle]
    /\ calls = 0
    /\ hist = {}
    /\ faults = 0

NextCleanup ==
    \/ \E p \in Procs : VerifyEmailToken_Verify(p)
    \/ \E p \in Procs : VerifyEmailToken_Mark(p)
    \/ \E p \in Procs : VerifyEmailToken_SetVerified(p)
    \/ Tick
    \/ RunTokenCleanup

SpecCleanup == InitCleanup /\ [][NextCleanup]_vars

\* the cleanup task loops forever on its interval, and the database
\* eventually accepts a delete: a run that deletes rows is not put off forever
SpecScheduler == SpecCleanup /\ WF_vars(RunTokenCleanup /\ tokens' # tokens)


-----------------------------------------------------------------------------
(* UserRepository::create and TokenRepository::create *)

Emails == {Email("alice", "x.com"), Email("carol", "x.com")}
Usernames == {Username("alice", 0), Username("carol", 0)}

\* the unique keys of table users that create's error mapping names
UsersEmailKeyTaken(email) == \E id \in UserIds : users[id].email = email
UsersUsernameKeyTaken(username) == \E id \in UserIds : users[id].username = username

\* what create answers if the unique keys of users are not consulted
UserCreateAnswers_NoKeys(email, username) == {DbOk}

\* what user_repo.create(dto, hash) can answer when the statement runs: the
\* Duplicate of a violated key, else Ok
UserCreateAnswers(email, username) ==
    LET dups == {m \in {"Email already exists", "Username already exists"} :
                    \/ m = "Email already exists" /\ UsersEmailKeyTaken(email)
                    \/ m = "Username already exists" /\ UsersUsernameKeyTaken(username)}
    IN  IF dups = {} THEN {DbOk} ELSE dups

\* the table after create's INSERT: role "user", is_email_verified false,
\* is_active true
UserCreate(email, username, password_hash) ==
    Append(users, UserRow(email, username, password_hash, FALSE, TRUE))

\* token_repo.create(dto, token) when the statement runs: Duplicate under
\* verification_tokens_token_key, else the row with expires_at = now + expires_in
TokenCreateAnswer(token) == IF TokenKeyTaken(token) THEN DbDuplicate ELSE DbOk
TokenCreate(user_id, token, type, expires_in) ==
    tokens \cup {TokenRow(tokenSeq + 1, Some(user_id), token, type, now + expires_in)}

-----------------------------------------------------------------------------
(* AuthService::request_password_reset *)

\* validate_email and user_repo.find_by_email
RequestPasswordReset_Find(p) ==
    \E email \in Emails, outcome \in DbOutcomes :
        LET loc == [Call("request_password_reset") EXCEPT !.email = email]
            found == FindByEmail(email)
        IN  /\ CanCall(p)
            /\ Inject(outcome)
            /\ IF outcome # DbOk
               THEN BeginReturn(p, loc, AppDatabase(outcome))
               ELSE IF found = {}
                    THEN BeginReturn(p, loc, Err("NotFound", "User not found"))
                    ELSE Begin(p, [loc EXCEPT !.uid = Unwrap(found)], "rq_inval")
            /\ UNCHANGED <<now, users, tokens, tokenSeq, conns, providers>>

\* let _ = token_repo.invalidate_by_user_and_type(user.id, PASSWORD_RESET):
\* a failure is dropped
RequestPasswordReset_Invalidate(p) ==
    \E outcome \in DbOutcomes :
        /\ procs[p].pc = "rq_inval"
        /\ Inject(outcome)
        /\ tokens' = IF outcome = DbOk
                     THEN InvalidateByUserAndType(procs[p].uid, TOKEN_TYPE_PASSWORD_RESET)
                     ELSE tokens
        /\ Goto(p, "rq_create")
        /\ UNCHANGED <<now, users, tokenSeq, conns, providers>>

\* generate_random_token and token_repo.create, errors as Database; the
\* service returns the token to the handler
RequestPasswordReset_Create(p) ==
    \E token \in TokenStrings, outcome \in DbOutcomes :
        /\ procs[p].pc = "rq_create"
        /\ Inject(outcome)
        /\ IF outcome # DbOk
           THEN Return(p, AppDatabase(outcome)) /\ UNCHANGED <<tokens, tokenSeq>>
           ELSE IF TokenCreateAnswer(token) # DbOk
                THEN Return(p, AppDatabase(DbDuplicate)) /\ UNCHANGED <<tokens, tokenSeq>>
                ELSE /\ tokens' = TokenCreate(procs[p].uid, token, TOKEN_TYPE_PASSWORD_RESET,
                                              PasswordResetExpiresIn)
                     /\ tokenSeq' = tokenSeq + 1
                     /\ Continue(p, [procs[p] EXCEPT !.tid = tokenSeq + 1], "rq_user")
        /\ UNCHANGED <<now, users, conns, providers>>

\* the request_password_reset handler after the service returned the token:
\* the account is read again by email, the mail is handed to a spawned task
\* and the acknowledgement is returned
RequestPasswordReset_GetUser(p) ==
    \E outcome \in DbOutcomes :
        /\ procs[p].pc = "rq_user"
        /\ Inject(outcome)
        /\ IF outcome # DbOk
           THEN Return(p, AppDatabase(outcome))
           ELSE IF FindByEmail(procs[p].email) = {}
                THEN Return(p, Err("NotFound", "User tidak ditemukan"))
                ELSE Return(p, Ok)
        /\ UNCHANGED <<now, users, tokens, tokenSeq, conns, providers>>

-----------------------------------------------------------------------------
(* AuthService::register_user_with_verification *)

\* dto.validate, hash_password and user_repo.create, Duplicate as Validation
RegisterWithVerification_CreateUser(p) ==
    \E email \in Emails, username \in Usernames, salt \in FreshSalts, outcome \in DbOutcomes :
        \E answer \in UserCreateAnswers(email, username) :
            LET loc == [Call("register_user_with_verification") EXCEPT !.email = email]
            IN  /\ CanCall(p)
                /\ Inject(outcome)
                /\ IF outcome # DbOk
                   THEN BeginReturn(p, loc, AppDatabase(outcome)) /\ UNCHANGED users
                   ELSE IF answer # DbOk
                        THEN BeginReturn(p, loc, Err("Validation", answer)) /\ UNCHANGED users
                        ELSE /\ users' = UserCreate(email, username,
                                                    hash_password("Passw0rd!", salt))
                             /\ Begin(p, [loc EXCEPT !.uid = Len(users) + 1], "rv_token")
                /\ UNCHANGED <<now, tokens, tokenSeq, conns, providers>>

\* generate_random_token and token_repo.create with expires_in 86400
RegisterWithVerification_CreateToken(p) ==
    \E token \in TokenStrings, outcome \in DbOutcomes :
        /\ procs[p].pc = "rv_token"
        /\ Inject(outcome)
        /\ IF outcome # DbOk
           THEN Return(p, AppDatabase(outcome)) /\ UNCHANGED <<tokens, tokenSeq>>
           ELSE IF TokenCreateAnswer(token) # DbOk
                THEN Return(p, AppDatabase(DbDuplicate)) /\ UNCHANGED <<tokens, tokenSeq>>
                ELSE /\ tokens' = TokenCreate(procs[p].uid, token,
                                              TOKEN_TYPE_EMAIL_VERIFICATION,
                                              EmailVerificationExpiresIn)
                     /\ tokenSeq' = tokenSeq + 1
                     /\ Return(p, Ok)
        /\ UNCHANGED <<now, users, conns, providers>>

-----------------------------------------------------------------------------
(* The register and resend_verification_email handlers, and
   EmailService::send_verification_email *)

\* register: dto.validate and user_management.register_user (every create
\* error as Database)
Register_CreateUser(p) ==
    \E email \in Emails, username \in Usernames, salt \in FreshSalts, outcome \in DbOutcomes :
        \E answer \in UserCreateAnswers(email, username) :
            LET loc == [Call("register") EXCEPT !.email = email]
            IN  /\ CanCall(p)
                /\ Inject(outcome)
                /\ IF outcome # DbOk
                   THEN BeginReturn(p, loc, AppDatabase(outcome)) /\ UNCHANGED users
                   ELSE IF answer # DbOk
                        THEN BeginReturn(p, loc, AppDatabase(DbDuplicate)) /\ UNCHANGED users
                        ELSE /\ users' = UserCreate(email, username,
                                                    hash_password("Passw0rd!", salt))
                             /\ Begin(p, [loc EXCEPT !.uid = Len(users) + 1], "sv_token")
                /\ UNCHANGED <<now, tokens, tokenSeq, conns, providers>>

\* resend_verification_email: get_user_by_id of the authenticated account and
\* the is_email_verified check
ResendVerification_GetUser(p) ==
    \E uid \in UserIds, outcome \in DbOutcomes :
        LET loc == [Call("resend_verification_email") EXCEPT !.uid = uid]
        IN  /\ CanCall(p)
            /\ Inject(outcome)
            /\ IF outcome # DbOk
               THEN BeginReturn(p, loc, AppDatabase(outcome))
               ELSE IF ~LiveUser(uid)
                    THEN BeginReturn(p, loc, Err("NotFound", "User tidak ditemukan"))
                    ELSE IF users[uid].is_email_verified
                         THEN BeginReturn(p, loc, Err("Validation", "Email is already verified"))
                         ELSE Begin(p, loc, "sv_token")
            /\ UNCHANGED <<now, users, tokens, tokenSeq, conns, providers>>

\* send_verification_email: generate_verification_token (generate_random_token
\* and token_repo.create with expires_in 24 * 60 * 60), then the mail handed
\* to a spawned task, whose failure is only logged
SendVerificationEmail(p) ==
    \E token \in TokenStrings, outcome \in DbOutcomes :
        /\ procs[p].pc = "sv_token"
        /\ Inject(outcome)
        /\ IF outcome # DbOk
           THEN Return(p, AppDatabase(outcome)) /\ UNCHANGED <<tokens, tokenSeq>>
           ELSE IF TokenCreateAnswer(token) # DbOk
                THEN Return(p, AppDatabase(DbDuplicate)) /\ UNCHANGED <<tokens, tokenSeq>>
                ELSE /\ tokens' = TokenCreate(procs[p].uid, token,
                                              TOKEN_TYPE_EMAIL_VERIFICATION,
                                              EmailVerificationExpiresIn)
                     /\ tokenSeq' = tokenSeq + 1
                     /\ Return(p, Ok)
        /\ UNCHANGED <<now, users, conns, providers>>

-----------------------------------------------------------------------------
(* Issuance: accounts alice (unverified, holding the email_verification token
   of her registration) and bob. *)

InitIssue ==
    /\ now = 0
    /\ users = <<Alice, Bob>>
    /\ tokens = {TokenRow(1, Some(1), "tokA", TOKEN_TYPE_EMAIL_VERIFICATION,
                          EmailVerificationExpiresIn)}
    /\ tokenSeq = 1
    /\ conns = {}
    /\ providers = {}
    /\ procs = [p \in Procs |-> Idle]
    /\ calls = 0
    /\ hist = {}
    /\ faults = 0

NextIssue ==
    \/ \E p \in Procs : RequestPasswordReset_Find(p)
    \/ \E p \in Procs : RequestPasswordReset_Invalidate(p)
    \/ \E p \in Procs : RequestPasswordReset_Create(p)
    \/ \E p \in Procs : RequestPasswordReset_GetUser(p)
    \/ \E p \in Procs : RegisterWithVerification_CreateUser(p)
    \/ \E p \in Procs : RegisterWithVerification_CreateToken(p)
    \/ \E p \in Procs : Register_CreateUser(p)
    \/ \E p \in Procs : ResendVerification_GetUser(p)
    \/ \E p \in Procs : SendVerificationEmail(p)
    \/ Tick

SpecIssue == InitIssue /\ [][NextIssue]_vars

-----------------------------------------------------------------------------
(* Password-reset requests alone: alice holds the password_reset token of an
   earlier request, carol@x.com has no account. *)

InitReset ==
    /\ now = 0
    /\ users = <<Alice, Bob>>
    /\ tokens = {TokenRow(1, Some(1), "tokA", TOKEN_TYPE_PASSWORD_RESET,
                          PasswordResetExpiresIn)}
    /\ tokenSeq = 1
    /\ conns = {}
    /\ providers = {}
    /\ procs = [p \in Procs |-> Idle]
    /\ calls = 0
    /\ hist = {}
    /\ faults = 0

NextReset ==
    \/ \E p \in Procs : RequestPasswordReset_Find(p)
    \/ \E p \in Procs : RequestPasswordReset_Invalidate(p)
    \/ \E p \in Procs : RequestPasswordReset_Create(p)
    \/ \E p \in Procs : RequestPasswordReset_GetUser(p)
    \/ Tick

SpecReset == InitReset /\ [][NextReset]_vars

-----------------------------------------------------------------------------
(* Token cleanup between the steps of issuance and redemption: alice holds an
   email_verification token that expires at 1, and password_reset tokens are
   issued while the clock and the cleanup run. *)

InitSweep ==
    /\ now = 0
    /\ users = <<Alice, Bob>>
    /\ tokens = {TokenRow(1, Some(1), "tokA", TOKEN_TYPE_EMAIL_VERIFICATION, 1)}
    /\ tokenSeq = 1
    /\ conns = {}
    /\ providers = {}
    /\ procs = [p \in Procs |-> Idle]
    /\ calls = 0
    /\ hist = {}
    /\ faults = 0

NextSweep ==
    \/ \E p \in Procs : VerifyEmailToken_Verify(p)
    \/ \E p \in Procs : VerifyEmailToken_Mark(p)
    \/ \E p \in Procs : VerifyEmailToken_SetVerified(p)
    \/ \E p \in Procs : RequestPasswordReset_Find(p)
    \/ \E p \in Procs : RequestPasswordReset_Invalidate(p)
    \/ \E p \in Procs : RequestPasswordReset_Create(p)
    \/ \E p \in Procs : RequestPasswordReset_GetUser(p)
    \/ Tick
    \/ RunTokenCleanup

SpecSweep == InitSweep /\ [][NextSweep]_vars

-----------------------------------------------------------------------------
(* The writing statements of TokenRepository run one at a time, in any order
   and by any caller: alice holds two password_reset tokens and one
   email_verification token.  verify_token is the read VerifyTokenRows. *)

\* a statement of the repository is counted as a call
CanRun == calls < MaxCalls

\* a statement, the time it runs at and its answer
Statement(op) == [Idle EXCEPT !.op = op, !.at = now]
Ran(loc, res) ==
    /\ hist' = hist \cup {Returned(loc, res)}
    /\ calls' = calls + 1
    /\ UNCHANGED procs

\* TokenRepository::mark_as_used(token_id): a row not found is an error
mark_as_used ==
    \E id \in 1..tokenSeq, outcome \in DbOutcomes :
        /\ CanRun
        /\ Inject(outcome)
        /\ tokens' = IF outcome = DbOk THEN MarkAsUsed(id) ELSE tokens
        /\ Ran([Statement("mark_as_used") EXCEPT !.tid = id],
               IF outcome # DbOk THEN AppDatabase(outcome)
               ELSE IF MarkAsUsedRows(id) = {} THEN AppDatabase(DbNotFound) ELSE Ok)
        /\ UNCHANGED <<now, users, tokenSeq, conns, providers>>

\* TokenRepository::invalidate_by_user_and_type(user_id, token_type)
invalidate_by_user_and_type ==
    \E user_id \in UserIds, type \in TokenTypes, outcome \in DbOutcomes :
        /\ CanRun
        /\ Inject(outcome)
        /\ tokens' = IF outcome = DbOk THEN InvalidateByUserAndType(user_id, type)
                     ELSE tokens
        /\ Ran([Statement("invalidate_by_user_and_type") EXCEPT !.uid = user_id,
                                                           !.candidate = type],
               IF outcome # DbOk THEN AppDatabase(outcome) ELSE Ok)
        /\ UNCHANGED <<now, users, tokenSeq, conns, providers>>

InitSingleUse ==
    /\ now = 0
    /\ users = <<Alice, Bob>>
    /\ tokens = {TokenRow(1, Some(1), "tokA", TOKEN_TYPE_PASSWORD_RESET,
                          PasswordResetExpiresIn),
                 TokenRow(2, Some(1), "tokB", TOKEN_TYPE_PASSWORD_RESET,
                          PasswordResetExpiresIn),
                 TokenRow(3, Some(1), "tokC", TOKEN_TYPE_EMAIL_VERIFICATION,
                          EmailVerificationExpiresIn)}
    /\ tokenSeq = 3
    /\ conns = {}
    /\ providers = {}
    /\ procs = [p \in Procs |-> Idle]
    /\ calls = 0
    /\ hist = {}
    /\ faults = 0

NextSingleUse ==
    \/ mark_as_used
    \/ invalidate_by_user_and_type
    \/ Tick
    \/ RunTokenCleanup

SpecSingleUse == InitSingleUse /\ [][NextSingleUse]_vars


-----------------------------------------------------------------------------
(* TokenService: session tokens (JWT, HS256) *)

\* config.jwt_secret, and a key the service does not hold
JwtSecret == "JWT_SECRET"

\* config.jwt_expiration (default 3600 s) and config.refresh_token_expiration
\* (configured here to 7200 s)
JwtExpiration == 1
RefreshTokenExpiration == 2

\* user.id.to_string() and Uuid::parse_str
IdToString(id) == <<"uuid", id>>
ParseUuid(sub) == IF Len(sub) = 2 /\ sub[1] = "uuid" THEN Some(sub[2]) ELSE None

\* struct Claims
Claims(sub, exp, iat, email, role) ==
    [sub |-> sub, exp |-> exp, iat |-> iat, email |-> email, role |-> role]

\* encode(&Header::default(), &claims, &EncodingKey::from_secret(secret)): the
\* claims with their HS256 signature under the secret
Sign(secret, claims) == <<"HS256", secret, claims>>
encode(claims, secret) == [claims |-> claims, sig |-> Sign(secret, claims)]

\* claims that carry the role "user" whatever the account's role is
UserClaims_RoleDropped(id, user, t, ttl) ==
    Claims(IdToString(id), t + ttl, t, user.email, "user")

\* the claims generate_tokens builds for a user at time t with a lifetime
UserClaims(id, user, t, ttl) ==
    Claims(IdToString(id), t + ttl, t, user.email, user.global_role)

\* generate_tokens: the AuthResponse fields token and refresh_token
generate_tokens(id, user, t) ==
    {<<"token", encode(UserClaims(id, user, t, JwtExpiration), JwtSecret)>>,
     <<"refresh_token", encode(UserClaims(id, user, t, RefreshTokenExpiration), JwtSecret)>>}

\* decode::<Claims>(token, key, &Validation::default()): the signature is
\* checked first, then exp; a token is expired once exp lies more than the
\* leeway (60 s, less than a unit of the clock) behind now
DecodeError(jwt, t) ==
    IF jwt.sig # Sign(JwtSecret, jwt.claims) THEN "InvalidSignature"
    ELSE IF jwt.claims.exp < t THEN "ExpiredSignature"
    ELSE "none"

TokenExpired == Err("Authentication", "Token sudah expired")
TokenInvalid == Err("Authentication", "Token tidak valid")

\* verify_token at time t: Ok (with jwt.claims) or the mapped error
verify_token(jwt, t) ==
    IF DecodeError(jwt, t) = "ExpiredSignature" THEN TokenExpired
    ELSE IF DecodeError(jwt, t) # "none" THEN TokenInvalid
    ELSE Ok

\* claims that keep the expiry of the presented token
RefreshedClaims_OldExpiry(claims, t) ==
    Claims(claims.sub, claims.exp, t, claims.email, claims.role)

\* refresh_token: the claims of the new access token
RefreshedClaims(claims, t) ==
    Claims(claims.sub, t + JwtExpiration, t, claims.email, claims.role)

\* get_user_id_from_token
get_user_id_from_token(jwt, t) ==
    IF verify_token(jwt, t) # Ok THEN verify_token(jwt, t)
    ELSE IF IsNone(ParseUuid(jwt.claims.sub))
         THEN Err("Authentication", "Token berisi user ID yang tidak valid")
         ELSE Ok

-----------------------------------------------------------------------------
(* OAuthRepository (tables oauth_providers, user_oauth_connections) *)

\* the provider names the callback route is asked with: github has a built-in
\* fallback configuration, gitlab has none
ProviderKeys == {"github", "gitlab"}
FallbackProviders == {"google", "github"}

\* a row of oauth_providers that is not deleted
ProviderRow(name, active) == [provider_name |-> name, is_active |-> active]

\* find_provider_by_name: WHERE provider_name = $1 AND deleted_at IS NULL: the
\* configured row, NotFound, or a failed statement
FindProviderByName(provider, outcome) ==
    IF outcome = DbOk /\ \E row \in providers : row.provider_name = provider
    THEN Some(provider) ELSE None

\* what GET user_info_url answers for the account that authorized the code:
\* id, email (null when the account hides it) and login
Profiles ==
    {[id |-> "gh-1", email |-> None, login |-> "octocat"],
     [id |-> "gh-2", email |-> Some(Email("carol", "x.com")), login |-> "carol-dev"],
     [id |-> "gh-3", email |-> None, login |-> "bob"]}

\* the github branch of get_oauth_user_info_*: the email, or the placeholder
\* "{login}@github.user"
NormalizedEmail(profile) ==
    IF IsSome(profile.email) THEN Unwrap(profile.email)
    ELSE Email(profile.login, "github.user")

ConnRow(user_id, provider, sub, email, access_token) ==
    [user_id |-> user_id, provider |-> provider, provider_user_id |-> sub,
     email |-> email, access_token |-> access_token]

\* a plain INSERT of the connection
UpsertConnection_Insert(user_id, provider, sub, email, access_token) ==
    conns \cup {ConnRow(user_id, provider, sub, email, access_token)}

\* upsert_connection: INSERT ... ON CONFLICT (user_id, provider_id) DO UPDATE
\* SET provider_user_id, email, access_token (the values the callback always
\* passes; an optional value it does not pass keeps what the row held)
UpsertConnection(user_id, provider, sub, email, access_token) ==
    {c \in conns : ~(c.user_id = user_id /\ c.provider = provider)}
        \cup {ConnRow(user_id, provider, sub, email, access_token)}

-----------------------------------------------------------------------------
(* OAuthService::handle_oauth_callback, and AuthService::handle_oauth_callback
   which the route calls: the same steps without the oauth_providers lookups
   and without the connection *)

UnsupportedProvider == Err("Validation", "Unsupported OAuth provider")

\* generate_tokens(&user) and the AuthResponse: the token pair of the account
\* the callback worked on
AuthResponse(loc) ==
    [loc EXCEPT !.session = generate_tokens(loc.uid, users[loc.uid], now)]

\* OAuthService: the client from the configured provider or from the
\* fallback; AuthService: create_oauth_client, the built-in configurations
\* only.  Then the exchange of the authorization code for the access token.
OAuthCallback_ExchangeFrom(p, call) ==
    \E provider \in ProviderKeys, outcome \in DbOutcomes, answered \in BOOLEAN :
        LET loc == [call EXCEPT !.provider = provider]
            config == IF call.service = "AuthService" THEN None
                      ELSE FindProviderByName(provider, outcome)
        IN  /\ CanCall(p)
            /\ call.service = "AuthService" => outcome = DbOk
            /\ IF IsNone(config) /\ provider \notin FallbackProviders
               THEN /\ answered
                    /\ Inject(outcome)
                    /\ BeginReturn(p, loc, UnsupportedProvider)
               ELSE /\ outcome = DbOk
                    /\ Request(answered)
                    /\ IF answered
                       THEN Begin(p, loc, "oc_profile")
                       ELSE BeginReturn(p, loc,
                                Err("Authentication", "Failed to exchange code"))
            /\ UNCHANGED <<now, users, tokens, tokenSeq, conns, providers>>

\* handle_oauth_callback called by itself, without the query of the route
OAuthCallback_Exchange(p) ==
    OAuthCallback_ExchangeFrom(p, [Call("oauth_callback") EXCEPT !.service = "OAuthService"])

\* the profile fetched with the access token and normalized to
\* (provider_user_id, email, name, avatar)
OAuthCallback_ProfileFrom(p, profiles) ==
    \E profile \in profiles, answered \in BOOLEAN :
        /\ procs[p].pc = "oc_profile"
        /\ Request(answered)
        /\ IF answered
           THEN Continue(p, [procs[p] EXCEPT !.sub = profile.id,
                                             !.email = NormalizedEmail(profile)],
                         "oc_find")
           ELSE Return(p, Err("Unexpected", "Failed to fetch user info"))
        /\ UNCHANGED <<now, users, tokens, tokenSeq, conns, providers>>

OAuthCallback_Profile(p) == OAuthCallback_ProfileFrom(p, Profiles)

\* the provider's answers for one account over time: gh-1 first hides its
\* email, later shows the address alice@x.com
ProfilesOverTime ==
    {[id |-> "gh-1", email |-> None, login |-> "octocat"],
     [id |-> "gh-1", email |-> Some(Email("alice", "x.com")), login |-> "octocat"]}

OAuthCallback_ChangedProfile(p) == OAuthCallback_ProfileFrom(p, ProfilesOverTime)

\* user_repo.find_by_email(&email): the account, NotFound (a new account is
\* prepared with the local part of the email as username), or Database
OAuthCallback_FindUser(p) ==
    \E outcome \in DbOutcomes :
        LET found == FindByEmail(procs[p].email)
        IN  /\ procs[p].pc = "oc_find"
            /\ Inject(outcome)
            /\ IF outcome # DbOk
               THEN Return(p, AppDatabase(outcome))
               ELSE IF found # {}
                    THEN Continue(p, [procs[p] EXCEPT !.uid = Unwrap(found)], "oc_login")
                    ELSE Continue(p, [procs[p] EXCEPT
                                        !.username = Username(procs[p].email.local, 0)],
                                  "oc_uname")
            /\ UNCHANGED <<now, users, tokens, tokenSeq, conns, providers>>

\* the account exists: user_repo.update_last_login(user.id)
OAuthCallback_UpdateLastLogin(p) ==
    \E outcome \in DbOutcomes :
        LET uid == procs[p].uid
        IN  /\ procs[p].pc = "oc_login"
            /\ Inject(outcome)
            /\ IF outcome # DbOk
               THEN Return(p, AppDatabase(outcome)) /\ UNCHANGED users
               ELSE IF ~LiveUser(uid)
                    THEN Return(p, AppDatabase(DbNotFound)) /\ UNCHANGED users
                    ELSE /\ users' = UpdateLastLogin(uid)
                         /\ LET loc == [procs[p] EXCEPT !.wrote = @ \cup {"last_login"}]
                            IN  IF loc.service = "AuthService"
                                THEN ReturnAs(p, AuthResponse(loc), Ok)
                                ELSE Continue(p, loc, "oc_conn")
            /\ UNCHANGED <<now, tokens, tokenSeq, conns, providers>>

\* a candidate that skips a suffix
NextCandidate_Skip(username) == Username(username.base, username.suffix + 2)

\* attempt += 1; username = format!("{}_{}", username_base, attempt)
NextCandidate(username) == Username(username.base, username.suffix + 1)

\* one round of while find_by_username(&username).is_ok(): a taken name gets
\* the next suffix, anything else (NotFound or a failed statement) ends the loop
OAuthCallback_CheckUsername(p) ==
    \E outcome \in DbOutcomes :
        LET username == procs[p].username
        IN  /\ procs[p].pc = "oc_uname"
            /\ Inject(outcome)
            /\ IF outcome = DbOk /\ FindByUsername(username) # {}
               THEN Continue(p, [procs[p] EXCEPT !.username = NextCandidate(username)],
                             "oc_uname")
               ELSE Goto(p, "oc_create")
            /\ UNCHANGED <<now, users, tokens, tokenSeq, conns, providers>>

\* hash of the random password and user_repo.create, Duplicate as Validation
OAuthCallback_CreateUser(p) ==
    \E password \in RandomPasswords, salt \in FreshSalts, outcome \in DbOutcomes :
        \E answer \in UserCreateAnswers(procs[p].email, procs[p].username) :
            /\ procs[p].pc = "oc_create"
            /\ Inject(outcome)
            /\ IF outcome # DbOk
               THEN Return(p, AppDatabase(outcome)) /\ UNCHANGED users
               ELSE IF answer # DbOk
                    THEN Return(p, Err("Validation", answer)) /\ UNCHANGED users
                    ELSE /\ users' = UserCreate(procs[p].email, procs[p].username,
                                                hash_password(password, salt))
                         /\ Continue(p, [procs[p] EXCEPT !.uid = Len(users) + 1,
                                                         !.wrote = @ \cup {"user"}],
                                     "oc_verify")
            /\ UNCHANGED <<now, tokens, tokenSeq, conns, providers>>

\* user_repo.update_email_verification(user.id, true) on the new account
OAuthCallback_SetVerified(p) ==
    \E outcome \in DbOutcomes :
        LET uid == procs[p].uid
        IN  /\ procs[p].pc = "oc_verify"
            /\ Inject(outcome)
            /\ IF outcome # DbOk
               THEN Return(p, AppDatabase(outcome)) /\ UNCHANGED users
               ELSE IF ~LiveUser(uid)
                    THEN Return(p, AppDatabase(DbNotFound)) /\ UNCHANGED users
                    ELSE /\ users' = UpdateEmailVerification(uid, TRUE)
                         /\ LET loc == [procs[p] EXCEPT !.wrote = @ \cup {"verified"}]
                            IN  IF loc.service = "AuthService"
                                THEN ReturnAs(p, AuthResponse(loc), Ok)
                                ELSE Continue(p, loc, "oc_conn")
            /\ UNCHANGED <<now, tokens, tokenSeq, conns, providers>>

\* if let Ok(provider_config) = find_provider_by_name(provider): the
\* connection is upserted with this login's access token; otherwise nothing
\* is written.  Then generate_tokens and the AuthResponse.
OAuthCallback_Connection(p) ==
    \E lookup \in DbOutcomes, outcome \in DbOutcomes :
        LET loc == procs[p]
            config == FindProviderByName(loc.provider, lookup)
        IN  /\ loc.pc = "oc_conn"
            /\ IF IsNone(config)
               THEN /\ outcome = DbOk
                    /\ Inject(lookup)
                    /\ ReturnAs(p, AuthResponse(loc), Ok)
                    /\ UNCHANGED conns
               ELSE /\ Inject(outcome)
                    /\ IF outcome # DbOk
                       THEN Return(p, AppDatabase(outcome)) /\ UNCHANGED conns
                       ELSE /\ conns' = UpsertConnection(loc.uid, Unwrap(config), loc.sub,
                                                         loc.email, loc.n)
                            /\ ReturnAs(p, AuthResponse([loc EXCEPT !.wrote = @ \cup {"conn"}]),
                                        Ok)
            /\ UNCHANGED <<now, users, tokens, tokenSeq, providers>>

-----------------------------------------------------------------------------
(* Normalization of the provider's profile: the match on the provider name in
   get_oauth_user_info_from_config, get_oauth_user_info_fallback and
   AuthService::extract_user_info_from_response *)

\* the providers whose profile may be normalized, and the profiles they answer
NormalizedProviders == {"google", "github", "gitlab"}
UserInfos ==
    Profiles \cup {[id |-> "id-4", email |-> Some(Email("dave", "x.com")), login |-> "dave"]}

EmailNotProvided == Err("Authentication", "Email not provided by OAuth provider")

\* google: the email or Authentication; github: the email or the placeholder;
\* any other provider: Validation
extract_user_info(provider, user_info) ==
    CASE provider = "google" ->
             IF IsSome(user_info.email)
             THEN [res |-> Ok, email |-> Unwrap(user_info.email)]
             ELSE [res |-> EmailNotProvided, email |-> Email("", "")]
      [] provider = "github" ->
             [res |-> Ok, email |-> NormalizedEmail(user_info)]
      [] OTHER ->
             [res |-> UnsupportedProvider, email |-> Email("", "")]

\* one normalization of a profile
ExtractUserInfo(p) ==
    \E provider \in NormalizedProviders, user_info \in UserInfos :
        LET info == extract_user_info(provider, user_info)
            loc == [Call("extract_user_info") EXCEPT !.provider = provider,
                                                     !.user_info = Some(user_info),
                                                     !.sub = user_info.id,
                                                     !.email = info.email]
        IN  /\ CanCall(p)
            /\ BeginReturn(p, loc, info.res)
            /\ UNCHANGED <<now, users, tokens, tokenSeq, conns, providers, faults>>

InitNormalize ==
    /\ now = 0
    /\ users = <<Alice, Bob>>
    /\ tokens = {}
    /\ tokenSeq = 0
    /\ conns = {}
    /\ providers = {}
    /\ procs = [p \in Procs |-> Idle]
    /\ calls = 0
    /\ hist = {}
    /\ faults = 0

NextNormalize == \E p \in Procs : ExtractUserInfo(p)

SpecNormalize == InitNormalize /\ [][NextNormalize]_vars

-----------------------------------------------------------------------------
(* Routes /oauth/{provider} and /oauth/{provider}/callback *)

\* CsrfToken::new_random
CsrfTokens == {<<"c", "s", "r", "f", "1">>, <<"c", "s", "r", "f", "2">>}

\* client.authorize_url(CsrfToken::new_random).add_scope(..).url()
AuthorizeEndpoint == <<"h", ":", "/", "/", "i", "d", "p", "?", "c", "l", "i", "e", "n", "t", "_", "i", "d", "=", "c", "&">>
ScopeParam == <<"&", "s", "c", "o", "p", "e", "=", "e", "m", "a", "i", "l">>
authorize_url(csrf) == AuthorizeEndpoint \o StateParam \o csrf \o ScopeParam

\* oauth_start: the redirect target of the query is written into the state
\* parameter of the authorization URL
CombinedStateUrl(auth_url, redirect_uri) ==
    IF IsNone(redirect_uri) THEN auth_url
    ELSE IF Contains(auth_url, StateParam)
         THEN LET existing_state == SplitHead(SplitSecond(auth_url, StateParam), Amp)
                  custom_redirect == urlencoding_encode(Unwrap(redirect_uri))
                  combined_state ==
                      IF existing_state = <<>> THEN custom_redirect
                      ELSE existing_state \o RedirectMarker \o custom_redirect
              IN  Replacen(auth_url, StateParam \o existing_state,
                           StateParam \o combined_state)
         ELSE auth_url \o (IF Contains(auth_url, <<"?">>) THEN Amp ELSE <<"?">>)
                  \o StateParam \o urlencoding_encode(Unwrap(redirect_uri))

\* the targets a client asks for: a page of the frontend, a foreign site
AppTarget == <<"/", "a", "p", "p">>
EvilTarget == <<"h", ":", "/", "/", "e", "v", "i", "l">>
StartRedirects == {None, Some(AppTarget)}

\* OAuthService::get_oauth_redirect_url: the client of the configured
\* provider, or of the built-in fallback when the lookup fails
GetOAuthRedirectUrl(p) ==
    \E provider \in ProviderKeys, csrf \in CsrfTokens, outcome \in DbOutcomes :
        LET loc == [Call("get_oauth_redirect_url") EXCEPT !.provider = provider,
                                                          !.service = "OAuthService"]
            config == FindProviderByName(provider, outcome)
        IN  /\ CanCall(p)
            /\ Inject(outcome)
            /\ IF IsNone(config) /\ provider \notin FallbackProviders
               THEN BeginReturn(p, loc, UnsupportedProvider)
               ELSE BeginReturn(p, [loc EXCEPT !.url = Some(authorize_url(csrf))], Ok)
            /\ UNCHANGED <<now, users, tokens, tokenSeq, conns, providers>>

\* oauth_start: AuthService::get_oauth_redirect_url (create_oauth_client, the
\* built-in configurations only), then the state parameter
OAuthStart(p) ==
    \E provider \in ProviderKeys, redirect_uri \in StartRedirects, csrf \in CsrfTokens :
        LET loc == [Call("oauth_start") EXCEPT !.provider = provider,
                                               !.redirect_uri = redirect_uri,
                                               !.service = "AuthService"]
            auth_url == authorize_url(csrf)
        IN  /\ CanCall(p)
            /\ IF provider \notin FallbackProviders
               THEN BeginReturn(p, loc, UnsupportedProvider)
               ELSE BeginReturn(p, [loc EXCEPT
                                       !.url = Some(CombinedStateUrl(auth_url, redirect_uri))],
                                Ok)
            /\ UNCHANGED <<now, users, tokens, tokenSeq, conns, providers, faults>>

\* the authorization URLs handed out so far
IssuedUrls == {Unwrap(h.url) : h \in {r \in hist : r.op = "oauth_start" /\ r.res = Ok}}

\* Query<OAuthCallbackQuery>: the state parameter as the identity provider
\* passes it back and the query extractor decodes it
EchoedState(url) == urlencoding_decode(SplitHead(SplitTail(url, StateParam), Amp))

\* an issued state whose target the client replaced, and states the client
\* made up
AlteredState(url) ==
    SplitHead(EchoedState(url), RedirectMarker) \o RedirectMarker
        \o urlencoding_encode(EvilTarget)
ForgedStates == {<<"x">> \o RedirectMarker \o urlencoding_encode(EvilTarget),
                 urlencoding_encode(EvilTarget)}

\* the queries a callback request can carry
CallbackStates ==
    {None} \cup {Some(EchoedState(url)) : url \in IssuedUrls}
           \cup {Some(AlteredState(url)) : url \in IssuedUrls}
           \cup {Some(state) : state \in ForgedStates}
CallbackRedirects == {None, Some(EvilTarget)}
CallbackErrors == {None, Some("access_denied")}

\* if let Some(error) = &query.error
OAuthProviderError_Ignored(error) == FALSE

OAuthProviderError(error) == IsSome(error)

\* oauth_callback: the error of the query, the target of its state, then
\* AuthService::handle_oauth_callback; the redirect is built when that has
\* returned
OAuthCallbackWith(p, states, redirects) ==
    \E error \in CallbackErrors, state \in states, redirect_uri \in redirects :
        LET call == [Call("oauth_callback") EXCEPT !.state = state,
                                                   !.redirect_uri = redirect_uri,
                                                   !.error = error,
                                                   !.service = "AuthService"]
        IN  IF OAuthProviderError(error)
            THEN /\ CanCall(p)
                 /\ BeginReturn(p, call, Err("Authentication", "OAuth error"))
                 /\ UNCHANGED <<now, users, tokens, tokenSeq, conns, providers, faults>>
            ELSE OAuthCallback_ExchangeFrom(p, call)

OAuthCallback(p) == OAuthCallbackWith(p, CallbackStates, CallbackRedirects)

\* a callback request without state and without redirect_uri
OAuthCallback_Plain(p) == OAuthCallbackWith(p, {None}, {None})

InitRedirect ==
    /\ now = 0
    /\ users = <<Alice, Bob>>
    /\ tokens = {}
    /\ tokenSeq = 0
    /\ conns = {}
    /\ providers = {ProviderRow("github", TRUE)}
    /\ procs = [p \in Procs |-> Idle]
    /\ calls = 0
    /\ hist = {}
    /\ faults = 0

NextRedirect ==
    \/ \E p \in Procs : OAuthStart(p)
    \/ \E p \in Procs : OAuthCallback(p)
    \/ \E p \in Procs : OAuthCallback_Profile(p)
    \/ \E p \in Procs : OAuthCallback_FindUser(p)
    \/ \E p \in Procs : OAuthCallback_UpdateLastLogin(p)
    \/ \E p \in Procs : OAuthCallback_CheckUsername(p)
    \/ \E p \in Procs : OAuthCallback_CreateUser(p)
    \/ \E p \in Procs : OAuthCallback_SetVerified(p)

SpecRedirect == InitRedirect /\ [][NextRedirect]_vars

-----------------------------------------------------------------------------
(* The callback route alone: the provider answered with a code or with an
   error *)

InitCallback ==
    /\ now = 0
    /\ users = <<Alice, Bob>>
    /\ tokens = {}
    /\ tokenSeq = 0
    /\ conns = {}
    /\ providers = {ProviderRow("github", TRUE)}
    /\ procs = [p \in Procs |-> Idle]
    /\ calls = 0
    /\ hist = {}
    /\ faults = 0

NextCallback ==
    \/ \E p \in Procs : OAuthCallback_Plain(p)
    \/ \E p \in Procs : OAuthCallback_Profile(p)
    \/ \E p \in Procs : OAuthCallback_FindUser(p)
    \/ \E p \in Procs : OAuthCallback_UpdateLastLogin(p)
    \/ \E p \in Procs : OAuthCallback_CheckUsername(p)
    \/ \E p \in Procs : OAuthCallback_CreateUser(p)
    \/ \E p \in Procs : OAuthCallback_SetVerified(p)

SpecCallback == InitCallback /\ [][NextCallback]_vars

\* the task of a callback is polled until it returns and the database
\* answers every find_by_username: the search loop takes its next round
SpecProvision ==
    SpecCallback /\ \A p \in Procs : WF_vars(OAuthCallback_CheckUsername(p))

-----------------------------------------------------------------------------
(* Provider resolution: github absent from oauth_providers, configured and
   active, or configured and inactive; gitlab is configured nowhere. *)

InitProvider ==
    /\ now = 0
    /\ users = <<Alice, Bob>>
    /\ tokens = {}
    /\ tokenSeq = 0
    /\ conns = {}
    /\ providers \in {{}, {ProviderRow("github", TRUE)}, {ProviderRow("github", FALSE)}}
    /\ procs = [p \in Procs |-> Idle]
    /\ calls = 0
    /\ hist = {}
    /\ faults = 0

NextProvider ==
    \/ \E p \in Procs : GetOAuthRedirectUrl(p)
    \/ \E p \in Procs : OAuthStart(p)
    \/ \E p \in Procs : OAuthCallback_Exchange(p)
    \/ \E p \in Procs : OAuthCallback_Profile(p)
    \/ \E p \in Procs : OAuthCallback_FindUser(p)
    \/ \E p \in Procs : OAuthCallback_UpdateLastLogin(p)
    \/ \E p \in Procs : OAuthCallback_CheckUsername(p)
    \/ \E p \in Procs : OAuthCallback_CreateUser(p)
    \/ \E p \in Procs : OAuthCallback_SetVerified(p)
    \/ \E p \in Procs : OAuthCallback_Connection(p)

SpecProvider == InitProvider /\ [][NextProvider]_vars

-----------------------------------------------------------------------------
(* Federated sign-in next to registration: accounts alice and bob, github
   configured in oauth_providers or left to the built-in fallback. *)

InitOAuth ==
    /\ now = 0
    /\ users = <<Alice, Bob>>
    /\ tokens = {}
    /\ tokenSeq = 0
    /\ conns = {}
    /\ providers \in {{}, {ProviderRow("github", TRUE)}}
    /\ procs = [p \in Procs |-> Idle]
    /\ calls = 0
    /\ hist = {}
    /\ faults = 0

NextOAuth ==
    \/ \E p \in Procs : OAuthCallback_Exchange(p)
    \/ \E p \in Procs : OAuthCallback_Profile(p)
    \/ \E p \in Procs : OAuthCallback_FindUser(p)
    \/ \E p \in Procs : OAuthCallback_UpdateLastLogin(p)
    \/ \E p \in Procs : OAuthCallback_CheckUsername(p)
    \/ \E p \in Procs : OAuthCallback_CreateUser(p)
    \/ \E p \in Procs : OAuthCallback_SetVerified(p)
    \/ \E p \in Procs : OAuthCallback_Connection(p)
    \/ \E p \in Procs : RegisterWithVerification_CreateUser(p)
    \/ \E p \in Procs : RegisterWithVerification_CreateToken(p)

SpecOAuth == InitOAuth /\ [][NextOAuth]_vars

-----------------------------------------------------------------------------
(* A provider identity whose email changes between sign-ins: accounts alice
   and bob, github configured. *)

InitIdentity ==
    /\ now = 0
    /\ users = <<Alice, Bob>>
    /\ tokens = {}
    /\ tokenSeq = 0
    /\ conns = {}
    /\ providers = {ProviderRow("github", TRUE)}
    /\ procs = [p \in Procs |-> Idle]
    /\ calls = 0
    /\ hist = {}
    /\ faults = 0

NextIdentity ==
    \/ \E p \in Procs : OAuthCallback_Exchange(p)
    \/ \E p \in Procs : OAuthCallback_ChangedProfile(p)
    \/ \E p \in Procs : OAuthCallback_FindUser(p)
    \/ \E p \in Procs : OAuthCallback_UpdateLastLogin(p)
    \/ \E p \in Procs : OAuthCallback_CheckUsername(p)
    \/ \E p \in Procs : OAuthCallback_CreateUser(p)
    \/ \E p \in Procs : OAuthCallback_SetVerified(p)
    \/ \E p \in Procs : OAuthCallback_Connection(p)

SpecIdentity == InitIdentity /\ [][NextIdentity]_vars

-----------------------------------------------------------------------------
(* AuthService::login *)

InvalidEmailOrPassword == Err("Authentication", "Invalid email or password")

\* an account whose is_active flag was cleared
Dora == UserRow(Email("dora", "x.com"), Username("dora", 0),
                hash_password("N3wSecret#", "s0d"), TRUE, FALSE)

LoginEmails == {Alice.email, Dora.email, Email("nobody", "x.com")}

\* a verify_password error that reaches the caller as it is
LoginPasswordError_Through(e) == e

\* verify_password(..).map_err(|_| Authentication("Invalid email or password"))
LoginPasswordError(e) == InvalidEmailOrPassword

\* dto.validate, user_repo.find_by_email (any error as Authentication),
\* verify_password against user.password_hash (any error as Authentication)
\* and generate_tokens
Login_Find(p) ==
    \E email \in LoginEmails, password \in Passwords, outcome \in DbOutcomes :
        LET loc == [Call("login") EXCEPT !.email = email, !.password = password]
            found == FindByEmail(email)
        IN  /\ CanCall(p)
            /\ Inject(outcome)
            /\ IF outcome # DbOk \/ found = {}
               THEN BeginReturn(p, loc, InvalidEmailOrPassword)
               ELSE IF verify_password(password, users[Unwrap(found)].password_hash) # Ok
                    THEN BeginReturn(p, [loc EXCEPT !.uid = Unwrap(found)],
                            LoginPasswordError(
                                verify_password(password,
                                                users[Unwrap(found)].password_hash)))
                    ELSE Begin(p, [loc EXCEPT
                                      !.uid = Unwrap(found),
                                      !.session = generate_tokens(Unwrap(found),
                                                                  users[Unwrap(found)], now)],
                               "lg_last")
            /\ UNCHANGED <<now, users, tokens, tokenSeq, conns, providers>>

\* user_repo.update_last_login(user.id), awaited, errors as Database (the
\* token pair is dropped with them); then the AuthResponse with the token pair
Login_UpdateLastLogin(p) ==
    \E outcome \in DbOutcomes :
        LET uid == procs[p].uid
            failed == [procs[p] EXCEPT !.session = {}]
        IN  /\ procs[p].pc = "lg_last"
            /\ Inject(outcome)
            /\ IF outcome # DbOk
               THEN ReturnAs(p, failed, AppDatabase(outcome)) /\ UNCHANGED users
               ELSE IF ~LiveUser(uid)
                    THEN ReturnAs(p, failed, AppDatabase(DbNotFound)) /\ UNCHANGED users
                    ELSE /\ users' = UpdateLastLogin(uid)
                         /\ Return(p, Ok)
            /\ UNCHANGED <<now, tokens, tokenSeq, conns, providers>>

-----------------------------------------------------------------------------
(* Sign-in with a password: accounts alice, bob and the deactivated dora. *)

InitLogin ==
    /\ now = 0
    /\ users = <<Alice, Bob, Dora>>
    /\ tokens = {}
    /\ tokenSeq = 0
    /\ conns = {}
    /\ providers = {}
    /\ procs = [p \in Procs |-> Idle]
    /\ calls = 0
    /\ hist = {}
    /\ faults = 0

NextLogin ==
    \/ \E p \in Procs : Login_Find(p)
    \/ \E p \in Procs : Login_UpdateLastLogin(p)
    \/ Tick

SpecLogin == InitLogin /\ [][NextLogin]_vars

-----------------------------------------------------------------------------
(* UserManagementService::hash_password and verify_password applied to
   drawn passwords and salts *)

HashPassword(p) ==
    \E password \in Passwords, salt \in Salts :
        /\ CanCall(p)
        /\ Begin(p, [Call("verify_password") EXCEPT
                        !.password = password,
                        !.hash = hash_password(password, salt)], "hashed")
        /\ UNCHANGED <<now, users, tokens, tokenSeq, conns, providers, faults>>

VerifyPassword(p) ==
    \E candidate \in Passwords :
        /\ procs[p].pc = "hashed"
        /\ ReturnAs(p, [procs[p] EXCEPT !.candidate = candidate],
                    verify_password(candidate, procs[p].hash))
        /\ UNCHANGED <<now, users, tokens, tokenSeq, conns, providers, faults>>

InitHash ==
    /\ now = 0
    /\ users = <<>>
    /\ tokens = {}
    /\ tokenSeq = 0
    /\ conns = {}
    /\ providers = {}
    /\ procs = [p \in Procs |-> Idle]
    /\ calls = 0
    /\ hist = {}
    /\ faults = 0

NextHash ==
    \/ \E p \in Procs : HashPassword(p)
    \/ \E p \in Procs : VerifyPassword(p)

SpecHash == InitHash /\ [][NextHash]_vars

-----------------------------------------------------------------------------
(* Requests that mint or present session tokens *)

\* every token the service has handed out so far
Minted == {s[2] : s \in UNION {h.session : h \in hist}}

\* what a client can present: a token it was given, that token with a
\* signature that is not the one under the secret, or with an altered payload
\* under the old signature
Tampered(jwt) ==
    {[jwt EXCEPT !.sig = Sign("corrupted", jwt.claims)],
     [jwt EXCEPT !.claims.role = "admin", !.claims.exp = @ + 1]}
Presented == Minted \cup UNION {Tampered(jwt) : jwt \in Minted}

\* generate_tokens(&user) as login and the OAuth callback call it
GenerateTokens(p) ==
    \E uid \in {id \in UserIds : LiveUser(id)} :
        /\ CanCall(p)
        /\ BeginReturn(p, [Call("generate_tokens") EXCEPT
                              !.uid = uid, !.at = now,
                              !.session = generate_tokens(uid, users[uid], now)], Ok)
        /\ UNCHANGED <<now, users, tokens, tokenSeq, conns, providers, faults>>

\* verify_token(token) as the require_auth middleware calls it
VerifyToken(p) ==
    \E jwt \in Presented :
        /\ CanCall(p)
        /\ BeginReturn(p, [Call("verify_token") EXCEPT !.jwt = Some(jwt), !.at = now],
                       verify_token(jwt, now))
        /\ UNCHANGED <<now, users, tokens, tokenSeq, conns, providers, faults>>

\* the refresh_token handler: TokenService::refresh_token(refresh_token)
RefreshToken(p) ==
    \E jwt \in Presented :
        LET res == verify_token(jwt, now)
            new == encode(RefreshedClaims(jwt.claims, now), JwtSecret)
        IN  /\ CanCall(p)
            /\ BeginReturn(p, [Call("refresh_token") EXCEPT
                                  !.jwt = Some(jwt), !.at = now,
                                  !.session = IF res = Ok THEN {<<"token", new>>} ELSE {}],
                           res)
            /\ UNCHANGED <<now, users, tokens, tokenSeq, conns, providers, faults>>

\* the logout handler: get_user_id_from_token(refresh_token), then
\* AuthService::logout(user_id), which only reads the account
Logout(p) ==
    \E jwt \in Presented, outcome \in DbOutcomes :
        LET res == get_user_id_from_token(jwt, now)
            uid == Unwrap(ParseUuid(jwt.claims.sub))
            loc == [Call("logout") EXCEPT !.jwt = Some(jwt), !.at = now]
        IN  /\ CanCall(p)
            /\ IF res # Ok
               THEN outcome = DbOk /\ UNCHANGED faults /\ BeginReturn(p, loc, res)
               ELSE /\ Inject(outcome)
                    /\ IF outcome # DbOk
                       THEN BeginReturn(p, [loc EXCEPT !.uid = uid], AppDatabase(outcome))
                       ELSE IF ~LiveUser(uid)
                            THEN BeginReturn(p, [loc EXCEPT !.uid = uid], NoSuchUser)
                            ELSE BeginReturn(p, [loc EXCEPT !.uid = uid], Ok)
            /\ UNCHANGED <<now, users, tokens, tokenSeq, conns, providers>>

-----------------------------------------------------------------------------
(* Sessions: alice and the administrator root; alice holds the token pair of
   a sign-in at time 0. *)

Root == [UserRow(Email("root", "x.com"), Username("root", 0),
                 hash_password("Passw0rd!", "s0r"), TRUE, TRUE)
            EXCEPT !.global_role = "admin"]

SignedInAtStart(uid, user) ==
    Returned([Idle EXCEPT !.op = "generate_tokens", !.uid = uid,
                          !.session = generate_tokens(uid, user, 0)], Ok)

InitSession ==
    /\ now = 0
    /\ users = <<Alice, Root>>
    /\ tokens = {}
    /\ tokenSeq = 0
    /\ conns = {}
    /\ providers = {}
    /\ procs = [p \in Procs |-> Idle]
    /\ calls = 0
    /\ hist = {SignedInAtStart(1, Alice)}
    /\ faults = 0

NextSession ==
    \/ \E p \in Procs : GenerateTokens(p)
    \/ \E p \in Procs : VerifyToken(p)
    \/ \E p \in Procs : RefreshToken(p)
    \/ Tick

SpecSession == InitSession /\ [][NextSession]_vars

-----------------------------------------------------------------------------
(* Logout: alice, and gone, whose account was deleted after a sign-in; both
   hold the token pairs of sign-ins at time 0. *)

Gone == [UserRow(Email("gone", "x.com"), Username("gone", 0),
                 hash_password("Passw0rd!", "s0g"), TRUE, TRUE)
            EXCEPT !.deleted = TRUE]

InitLogout ==
    /\ now = 0
    /\ users = <<Alice, Gone>>
    /\ tokens = {}
    /\ tokenSeq = 0
    /\ conns = {}
    /\ providers = {}
    /\ procs = [p \in Procs |-> Idle]
    /\ calls = 0
    /\ hist = {SignedInAtStart(1, Alice), SignedInAtStart(2, Gone)}
    /\ faults = 0

NextLogout ==
    \/ \E p \in Procs : Logout(p)
    \/ \E p \in Procs : VerifyToken(p)
    \/ Tick

SpecLogout == InitLogout /\ [][NextLogout]_vars

-----------------------------------------------------------------------------
(* Accounts that are deactivated or deleted while their session tokens are
   still valid: the require_auth middleware and the two ways to refresh *)

\* UserRepository::delete(id): SET deleted_at = now() WHERE id = $1 AND
\* deleted_at IS NULL
DeleteUser ==
    \E id \in UserIds :
        /\ LiveUser(id)
        /\ users' = [users EXCEPT ![id].deleted = TRUE]
        /\ UNCHANGED <<now, tokens, tokenSeq, conns, providers, procs, calls, hist, faults>>

\* UserRepository::update(id, dto) with dto.is_active = Some(false)
DeactivateUser ==
    \E id \in UserIds :
        /\ LiveUser(id)
        /\ users[id].is_active
        /\ users' = [users EXCEPT ![id].is_active = FALSE]
        /\ UNCHANGED <<now, tokens, tokenSeq, conns, providers, procs, calls, hist, faults>>

\* a middleware that lets deactivated accounts through
AccountActive_Any(user) == TRUE

\* if !user.is_active
AccountActive(user) == user.is_active

\* require_auth: verify_token, Uuid::parse_str(&claims.sub), find_by_id (any
\* error as Authentication) and the is_active check
RequireAuth(p) ==
    \E jwt \in Presented, outcome \in DbOutcomes :
        LET res == verify_token(jwt, now)
            sub == ParseUuid(jwt.claims.sub)
            uid == Unwrap(sub)
            loc == [Call("require_auth") EXCEPT !.jwt = Some(jwt), !.at = now]
        IN  /\ CanCall(p)
            /\ IF res # Ok \/ IsNone(sub)
               THEN /\ outcome = DbOk
                    /\ UNCHANGED faults
                    /\ BeginReturn(p, loc,
                                   IF res # Ok THEN res
                                   ELSE Err("Authentication", "Token contains invalid user ID"))
               ELSE /\ Inject(outcome)
                    /\ BeginReturn(p, [loc EXCEPT !.uid = uid],
                         IF outcome # DbOk \/ ~LiveUser(uid)
                         THEN Err("Authentication", "User not found or inactive")
                         ELSE IF ~AccountActive(users[uid])
                              THEN Err("Authentication", "Account is not active")
                              ELSE Ok)
            /\ UNCHANGED <<now, users, tokens, tokenSeq, conns, providers>>

\* AuthService::refresh_access_token: verify_token, Uuid::parse_str,
\* find_by_id (NotFound as Authentication, else Database), then
\* TokenService::refresh_token
RefreshAccessToken(p) ==
    \E jwt \in Presented, outcome \in DbOutcomes :
        LET res == verify_token(jwt, now)
            sub == ParseUuid(jwt.claims.sub)
            uid == Unwrap(sub)
            new == encode(RefreshedClaims(jwt.claims, now), JwtSecret)
            loc == [Call("refresh_access_token") EXCEPT !.jwt = Some(jwt), !.at = now]
        IN  /\ CanCall(p)
            /\ IF res # Ok \/ IsNone(sub)
               THEN /\ outcome = DbOk
                    /\ UNCHANGED faults
                    /\ BeginReturn(p, loc,
                                   IF res # Ok THEN res
                                   ELSE Err("Authentication", "Invalid token"))
               ELSE /\ Inject(outcome)
                    /\ IF outcome # DbOk
                       THEN BeginReturn(p, [loc EXCEPT !.uid = uid], AppDatabase(outcome))
                       ELSE IF ~LiveUser(uid)
                            THEN BeginReturn(p, [loc EXCEPT !.uid = uid],
                                             Err("Authentication", "User not found"))
                            ELSE BeginReturn(p, [loc EXCEPT !.uid = uid,
                                                            !.session = {<<"token", new>>}],
                                             Ok)
            /\ UNCHANGED <<now, users, tokens, tokenSeq, conns, providers>>

-----------------------------------------------------------------------------
(* Protected routes: alice holds the token pair of a sign-in at time 0; an
   administrator deactivates or deletes her account. *)

InitGuard ==
    /\ now = 0
    /\ users = <<Alice>>
    /\ tokens = {}
    /\ tokenSeq = 0
    /\ conns = {}
    /\ providers = {}
    /\ procs = [p \in Procs |-> Idle]
    /\ calls = 0
    /\ hist = {SignedInAtStart(1, Alice)}
    /\ faults = 0

NextGuard ==
    \/ \E p \in Procs : RequireAuth(p)
    \/ DeleteUser
    \/ DeactivateUser
    \/ Tick

SpecGuard == InitGuard /\ [][NextGuard]_vars

-----------------------------------------------------------------------------
(* Refreshing: alice holds the token pair of a sign-in one access-token
   lifetime before the start and presents, at each refresh, any token she
   has obtained so far; nobody signs in again. *)

SessionStart == 0 - JwtExpiration

SignedInBefore(uid, user) ==
    Returned([Idle EXCEPT !.op = "generate_tokens", !.uid = uid, !.at = SessionStart,
                          !.session = generate_tokens(uid, user, SessionStart)], Ok)

InitRefresh ==
    /\ now = 0
    /\ users = <<Alice, Bob>>
    /\ tokens = {}
    /\ tokenSeq = 0
    /\ conns = {}
    /\ providers = {}
    /\ procs = [p \in Procs |-> Idle]
    /\ calls = 0
    /\ hist = {SignedInBefore(1, Alice)}
    /\ faults = 0

NextRefresh ==
    \/ \E p \in Procs : RefreshToken(p)
    \/ \E p \in Procs : RefreshAccessToken(p)
    \/ DeleteUser
    \/ DeactivateUser
    \/ Tick

SpecRefresh == InitRefresh /\ [][NextRefresh]_vars

-----------------------------------------------------------------------------
(* Claims on redemption *)

RedemptionOps == {"verify_email_token", "reset_password"}

SuccessesOn(tid) ==
    {h \in hist : h.op \in RedemptionOps /\ h.tid = tid /\ h.res = Ok}

\* C1: for every verification token, whatever the sequence or interleaving
\* of verify_email_token and reset_password attempts on it, at most one
\* attempt returns success; every other attempt that worked on the token
\* returned an error.
C1_AtMostOneRedemption ==
    \A tid \in 1..tokenSeq :
        /\ Cardinality(SuccessesOn(tid)) <= 1
        /\ \A h \in hist :
            h.op \in RedemptionOps /\ h.tid = tid /\ h \notin SuccessesOn(tid)
                => h.res.kind \in {"InvalidToken", "Database", "NotFound"}

\* C1 witness: two attempts passed the validity read on the same token; one
\* returned success and the other lost the conditional write.
C1_Witness ==
    \E h1, h2 \in hist :
        /\ h1.n # h2.n
        /\ h1.tid = h2.tid /\ h1.tid # 0
        /\ h1.op = h2.op /\ h1.op \in RedemptionOps
        /\ h1.res = Ok
        /\ h2.res = AppDatabase(DbNotFound)

NoResetInFlight == \A p \in Procs : procs[p].op # "reset_password"

Redeemable(r) == IsNone(r.used_at) /\ r.expires_at > now

\* C4: once reset_password has returned (with success or with an error at
\* any step), the password_reset token is redeemed iff the owning account's
\* password hash was replaced: never the token consumed with the old
\* password, never the password replaced with the token still redeemable.
C4_ResetIsOneUnit ==
    NoResetInFlight =>
        \A r \in tokens :
            r.type = TOKEN_TYPE_PASSWORD_RESET /\ IsSome(r.user_id) =>
                LET replaced == users[Unwrap(r.user_id)].password_hash
                                    # Alice.password_hash
                IN  /\ ~(IsSome(r.used_at) /\ ~replaced)
                    /\ ~(replaced /\ Redeemable(r))

\* C10: a redemption sets used_at only while now < expires_at and used_at is
\* null, and a redemption attempted on a never-redeemed token at or after
\* its expiry does not get past the validity read.
C10_RedeemOnlyBeforeExpiry ==
    [][/\ \A r \in tokens : \A r2 \in tokens' :
            r2.id = r.id /\ r2.used_at # r.used_at
                => IsNone(r.used_at) /\ now < r.expires_at
       /\ \A p \in Procs :
            procs[p].pc = "idle" /\ procs'[p].pc \in {"ve_mark", "rp_update"}
                => \A r \in tokens : r.id = procs'[p].tid => now < r.expires_at
      ]_vars


\* C11: verify_email_token and reset_password answer a token that cannot be
\* redeemed (absent, already redeemed, expired, or redeemed by another caller
\* between the validity read and the conditional write) with one and the
\* same error: when no statement failed, every refusal of a redemption is
\* the operation's InvalidToken error.
C11_SameTokenError ==
    faults = 0 =>
        \A h \in hist :
            /\ h.op = "verify_email_token" /\ h.res # Ok
                => h.res = InvalidVerificationToken
            /\ h.op = "reset_password" /\ h.res # Ok /\ validate_password_strength(h.password)
                => h.res = InvalidResetToken

\* C15: after a successful verify_email_token the owning account has
\* is_email_verified = true and the token row a non-null used_at, whether or
\* not the account was verified before; no other verify_email_token with
\* the same token string succeeds.
C15_VerifiedAndConsumed ==
    \A h \in hist :
        h.op = "verify_email_token" /\ h.res = Ok =>
            /\ users[h.uid].is_email_verified
            /\ \A r \in tokens : r.id = h.tid => IsSome(r.used_at)
            /\ \A h2 \in hist :
                h2.op = "verify_email_token" /\ h2.token = h.token /\ h2.n # h.n
                    => h2.res # Ok

\* C15 witness: bob, verified before, redeemed his token, and a later
\* verify_email_token with the same token was refused at the validity read,
\* with no statement failed and the token not expired.
C15_Witness ==
    \E h \in hist : \E h2 \in hist :
        /\ h.op = "verify_email_token" /\ h.res = Ok /\ h.uid = 2
        /\ Bob.is_email_verified
        /\ \E r \in tokens : r.id = h.tid /\ IsSome(r.used_at)
        /\ h2.op = "verify_email_token" /\ h2.token = h.token /\ h2.n > h.n
        /\ h2.tid = 0 /\ h2.res = InvalidVerificationToken
        /\ faults = 0 /\ now = 0

-----------------------------------------------------------------------------
(* Claims on issuance *)

Quiescent == \A p \in Procs : procs[p].pc = "idle"

RedeemableOf(uid, type) ==
    {r \in tokens : r.user_id = Some(uid) /\ r.type = type /\ Redeemable(r)}

\* C2: after any sequence of issuances through any issuance path, each
\* (account, purpose) has at most one redeemable token, and it is the most
\* recently issued one of that account and purpose.
C2_NewestTokenOnly ==
    Quiescent =>
        \A uid \in UserIds : \A type \in TokenTypes :
            /\ Cardinality(RedeemableOf(uid, type)) <= 1
            /\ \A r \in RedeemableOf(uid, type) : \A r2 \in tokens :
                r2.user_id = r.user_id /\ r2.type = type => r2.id <= r.id

\* C12: a password-reset request for an email that has no account is answered
\* with the same success acknowledgement as a request for an email that has
\* one (no statement having failed).
C12_SameAcknowledgement ==
    faults = 0 =>
        \A h \in hist :
            h.op = "request_password_reset" /\ h.uid = 0 => h.res = Ok

\* C13: a request_password_reset for an email that has no account leaves
\* table verification_tokens as it was, and every password_reset token that
\* is inserted belongs to the account found under the requested email.
C13_NoTokenWithoutAccount ==
    [][/\ \A h \in hist' \ hist :
            h.op = "request_password_reset" /\ AccountsWithEmail(h.email) = {}
                => tokens' = tokens /\ tokenSeq' = tokenSeq
       /\ \A r \in tokens' : r.id > tokenSeq =>
            \E p \in Procs :
                /\ procs[p].op = "request_password_reset"
                /\ r.type = TOKEN_TYPE_PASSWORD_RESET
                /\ r.user_id \subseteq AccountsWithEmail(procs[p].email)
                /\ r.user_id # None
      ]_vars

\* C13 witness: a request for an email without account was refused while
\* alice's earlier token is untouched, and a request for alice got its token.
C13_Witness ==
    /\ \E h \in hist : h.op = "request_password_reset" /\ h.uid = 0 /\ h.res = NoSuchUser
    /\ \E h \in hist : h.op = "request_password_reset" /\ h.res = Ok /\ h.tid = 2
    /\ \E r \in tokens : r.id = 2 /\ r.user_id = Some(1)

\* C3: register_user_with_verification is atomic: once it has returned, with
\* success or with an error, the account it inserted (if any) has its
\* email_verification token, and it returned success only if it inserted both.
C3_RegisterAtomic ==
    \A h \in hist :
        h.op = "register_user_with_verification" =>
            LET hasToken == \E r \in tokens :
                                /\ r.user_id = Some(h.uid)
                                /\ r.type = TOKEN_TYPE_EMAIL_VERIFICATION
            IN  /\ h.uid # 0 => hasToken
                /\ h.res = Ok => h.uid # 0 /\ hasToken

-----------------------------------------------------------------------------
(* Claims on federated sign-in and account uniqueness *)

ConnectionsOf(uid, provider) ==
    {c \in conns : c.user_id = uid /\ c.provider = provider}

\* the callbacks that got the identity's profile, for a given email and provider
CallbacksFor(email, provider) ==
    {h \in hist : h.op = "oauth_callback" /\ h.email = email /\ h.provider = provider}

\* C5: when two OAuth callbacks for the same provider identity, whose email
\* had no account and was not registered meanwhile, have both returned (in
\* any interleaving, nothing having failed in the database or at the
\* provider), there is exactly one account with that email and exactly one
\* connection row for (account, provider).
C5_OneAccountOneConnection ==
    Quiescent /\ faults = 0 =>
        \A h \in hist :
            /\ h.op = "oauth_callback"
            /\ h.email \notin {Alice.email, Bob.email, Email("", "")}
            /\ \A g \in hist : g.op = "oauth_callback"
            /\ Cardinality(CallbacksFor(h.email, h.provider)) = 2
            => /\ Cardinality(AccountsWithEmail(h.email)) = 1
               /\ \A uid \in AccountsWithEmail(h.email) :
                    Cardinality(ConnectionsOf(uid, h.provider)) = 1

\* C6: a callback that returned an error after the code exchange has written
\* nothing: no account, no verification flag, no last-login time and no
\* connection of its own remains.
C6_NoSideEffectsOnError ==
    \A h \in hist :
        h.op = "oauth_callback" /\ h.res # Ok => h.wrote = {}

\* C7: in every reachable state, whatever the interleaving of registrations
\* and OAuth provisioning, no two accounts share an email and no two share a
\* username.
C7_UniqueEmailAndUsername ==
    \A i \in UserIds : \A j \in UserIds :
        i # j => /\ users[i].email # users[j].email
                 /\ users[i].username # users[j].username

\* C7 witness: a registration and an OAuth provisioning raced for the same
\* email; the registration inserted the account after the callback's
\* find_by_email had answered NotFound, and the callback's create was refused.
C7_Witness ==
    \E h1 \in hist : \E h2 \in hist :
        /\ h1.op = "register_user_with_verification" /\ h1.uid # 0
        /\ h2.op = "oauth_callback" /\ h2.email = h1.email
        /\ h2.res = Err("Validation", "Email already exists")

-----------------------------------------------------------------------------
(* Claims on sign-in with a password *)

\* C8: login returns a session pair only for an existing account whose
\* stored credential verifies against the supplied password and whose
\* is_active flag is true; a login for an inactive account fails
\* Authentication.
C8_LoginOnlyForActive ==
    \A h \in hist :
        h.op = "login" =>
            /\ h.res = Ok =>
                /\ LiveUser(h.uid)
                /\ users[h.uid].email = h.email
                /\ verify_password(h.password, users[h.uid].password_hash) = Ok
                /\ users[h.uid].is_active
            /\ \A id \in FindByEmail(h.email) :
                ~users[id].is_active => h.res # Ok /\ h.res.kind = "Authentication"

\* C14: login answers an email that has no account and an existing account
\* given a wrong password with the same Authentication error, kind and
\* message.
C14_SameLoginFailure ==
    \A h \in hist :
        h.op = "login" =>
            /\ AccountsWithEmail(h.email) = {} => h.res = InvalidEmailOrPassword
            /\ \A id \in AccountsWithEmail(h.email) :
                verify_password(h.password, users[id].password_hash) # Ok
                    => h.res = InvalidEmailOrPassword

\* C14 witness: a login for an email without account and a login for alice
\* with a wrong password have both been answered, with equal answers.
C14_Witness ==
    \E h1 \in hist : \E h2 \in hist :
        /\ h1.op = "login" /\ h2.op = "login"
        /\ AccountsWithEmail(h1.email) = {}
        /\ h2.email = Alice.email /\ h2.uid = 1
        /\ verify_password(h2.password, Alice.password_hash) # Ok
        /\ h1.res = h2.res

\* C9: for every password p and every salt, verify_password(p,
\* hash_password(p)) succeeds, and verify_password(p', hash_password(p))
\* reports a mismatch for every p' # p.
C9_VerifyIffSamePassword ==
    \A h \in hist :
        h.op = "verify_password" =>
            /\ h.hash \in {hash_password(h.password, salt) : salt \in Salts}
            /\ h.candidate = h.password => h.res = Ok
            /\ h.candidate # h.password
                => h.res = Err("Authentication", "Email atau password salah")

\* C9 witness: the same hash was verified once with its own password and once
\* with another password.
C9_Witness ==
    \E h1 \in hist : \E h2 \in hist :
        /\ h1.op = "verify_password" /\ h2.op = "verify_password"
        /\ h1.hash = h2.hash /\ h1.hash[3] = "s2"
        /\ h1.candidate = h1.password /\ h1.res = Ok
        /\ h2.candidate # h2.password /\ h2.res # Ok

-----------------------------------------------------------------------------
(* Claims on session tokens *)

WellSigned(jwt) == jwt.sig = Sign(JwtSecret, jwt.claims)

\* C16: for every account, both tokens returned by generate_tokens verify at
\* the time of minting, and their claims carry the account's id, email and
\* role; a verify_token request made at that time on such a token succeeds.
C16_MintedTokenVerifies ==
    \A h \in hist :
        h.op = "generate_tokens" =>
            /\ {s[1] : s \in h.session} = {"token", "refresh_token"}
            /\ \A s \in h.session :
                /\ verify_token(s[2], h.at) = Ok
                /\ ParseUuid(s[2].claims.sub) = Some(h.uid)
                /\ s[2].claims.email = users[h.uid].email
                /\ s[2].claims.role = users[h.uid].global_role
                /\ \A v \in hist :
                    v.op = "verify_token" /\ v.jwt = Some(s[2]) /\ v.at = h.at
                        => v.res = Ok

\* C16 witness: a pair was minted for the administrator and one of its
\* tokens was verified at the time of minting.
C16_Witness ==
    \E h \in hist : \E v \in hist :
        /\ h.op = "generate_tokens" /\ h.n > 0 /\ h.uid = 2
        /\ users[2].global_role = "admin"
        /\ v.op = "verify_token" /\ v.at = h.at /\ v.res = Ok
        /\ \E s \in h.session : v.jwt = Some(s[2])

\* C17: verify_token answers 'expired' exactly for a token whose signature is
\* valid and whose expiry has passed, 'invalid' for a token whose signature
\* does not verify, and the two answers are of different error kinds.
C17_ExpiredAndInvalidKinds ==
    \A h \in hist :
        h.op = "verify_token" =>
            LET jwt == Unwrap(h.jwt)
                expired == WellSigned(jwt) /\ jwt.claims.exp < h.at
            IN  /\ expired <=> h.res = TokenExpired
                /\ ~WellSigned(jwt) => h.res = TokenInvalid
                /\ \A g \in hist :
                    /\ g.op = "verify_token"
                    /\ expired
                    /\ ~WellSigned(Unwrap(g.jwt))
                    => h.res.kind # g.res.kind

\* C18: refresh_token on a token that verifies returns a new access token
\* with the subject, email and role of the presented one, issued now and
\* expiring one access lifetime later, however often the token was refreshed
\* before; on a token that does not verify it returns that error and no
\* token.
C18_RefreshKeepsIdentity ==
    \A h \in hist :
        h.op = "refresh_token" =>
            LET r == Unwrap(h.jwt)
            IN  IF WellSigned(r) /\ r.claims.exp >= h.at
                THEN /\ h.res = Ok
                     /\ Cardinality(h.session) = 1
                     /\ \A s \in h.session :
                        /\ s[1] = "token"
                        /\ WellSigned(s[2])
                        /\ s[2].claims.sub = r.claims.sub
                        /\ s[2].claims.email = r.claims.email
                        /\ s[2].claims.role = r.claims.role
                        /\ s[2].claims.iat = h.at
                        /\ s[2].claims.exp = h.at + JwtExpiration
                ELSE h.res # Ok /\ h.session = {}

\* C18 witness: the refresh token of alice's sign-in was refreshed twice, at
\* different times, both times with success.
C18_Witness ==
    \E h1 \in hist : \E h2 \in hist :
        /\ h1.op = "refresh_token" /\ h2.op = "refresh_token"
        /\ h1.jwt = h2.jwt /\ h1.at < h2.at
        /\ <<"refresh_token", Unwrap(h1.jwt)>> \in generate_tokens(1, Alice, 0)
        /\ h1.res = Ok /\ h2.res = Ok

LogoutAnswers ==
    /\ \A v \in hist :
        v.op = "verify_token" /\ WellSigned(Unwrap(v.jwt))
            /\ Unwrap(v.jwt).claims.exp >= v.at => v.res = Ok
    /\ \A h \in hist :
        h.op = "logout" /\ WellSigned(Unwrap(h.jwt)) /\ Unwrap(h.jwt).claims.exp >= h.at =>
            /\ h.res = NoSuchUser => users[h.uid].deleted
            /\ ~users[h.uid].deleted => h.res \in {Ok, AppDatabase(DbConnectionError)}

\* C19: a logout writes nothing; every token that verifies by signature and
\* expiry is still answered Ok by verify_token after it; and a logout with a
\* valid token answers NotFound only when the account does not exist.
C19_LogoutChangesNothing ==
    [][/\ (\E h \in hist' \ hist : h.op = "logout")
            => UNCHANGED <<now, users, tokens, tokenSeq, conns, providers>>
       /\ LogoutAnswers'
      ]_vars

\* C19 witness: alice logged out, and afterwards a token of her sign-in was
\* verified with success.
C19_Witness ==
    \E h \in hist : \E v \in hist :
        /\ h.op = "logout" /\ h.res = Ok /\ h.uid = 1
        /\ v.op = "verify_token" /\ v.n > h.n /\ v.res = Ok
        /\ ParseUuid(Unwrap(v.jwt).claims.sub) = Some(1)

-----------------------------------------------------------------------------
(* Claims on the redirect after a federated sign-in *)

\* the redirect_uri parameter of a redirect address, decoded
RedirectTargetOf(url) ==
    IF Contains(url, RedirectUriParam)
    THEN Some(urlencoding_decode(SplitHead(SplitTail(url, RedirectUriParam), Amp)))
    ELSE None

\* C20: the target in the redirect of an oauth_callback that signed the user
\* in is the target an earlier oauth_start wrote into the state this callback
\* presents; a state or a redirect_uri parameter that the client forged or
\* altered puts no target into the redirect.
C20_RedirectTargetWasBound ==
    \A h \in hist :
        (h.op = "oauth_callback" /\ h.res = Ok /\ IsSome(RedirectTargetOf(Unwrap(h.url))))
            => \E s \in hist :
                   /\ s.op = "oauth_start" /\ s.res = Ok /\ s.n < h.n
                   /\ s.redirect_uri = RedirectTargetOf(Unwrap(h.url))
                   /\ h.state = Some(EchoedState(Unwrap(s.url)))

-----------------------------------------------------------------------------
(* Claims on provider resolution *)

\* the provider has a row in oauth_providers and the row is active
ProviderUsable(provider) ==
    \E row \in providers : row.provider_name = provider /\ row.is_active

OAuthEntryOps == {"oauth_start", "get_oauth_redirect_url", "oauth_callback"}

\* C21: for a provider key that is unknown or whose configuration is inactive,
\* OAuth start and OAuth callback fail NotFound or Configuration: no
\* authorization URL is returned and no callback gets as far as the code
\* exchange.
C21_UnusableProviderFails ==
    /\ \A h \in hist :
           (h.op \in OAuthEntryOps /\ ~ProviderUsable(h.provider))
               => h.res.kind \in {"NotFound", "Configuration"} /\ IsNone(h.url)
    /\ \A p \in Procs :
           procs[p].op = "oauth_callback" => ProviderUsable(procs[p].provider)

-----------------------------------------------------------------------------
(* Claims on the accounts and connections of federated sign-ins *)

\* the callback found an account under its normalized email
MatchedAccount(loc) ==
    /\ loc.op = "oauth_callback"
    /\ loc.pc = "oc_login" \/ (loc.pc = "oc_conn" /\ "user" \notin loc.wrote)

\* C23: a callback whose normalized email matched an existing account adds no
\* account in any of its later steps, and when it returns a session it is the
\* session of that account, whose last-login it has set.
C23_ExistingAccountReused ==
    [][\A p \in Procs :
           (MatchedAccount(procs[p]) /\ procs'[p] # procs[p])
               => /\ Len(users') = Len(users)
                  /\ \A h \in hist' \ hist :
                         h.res = Ok
                             => /\ h.uid = procs[p].uid
                                /\ users'[h.uid].email = h.email
                                /\ "last_login" \in h.wrote
                                /\ IsSome(users'[h.uid].last_login_at)
                                /\ h.session # {}
                                /\ \A s \in h.session :
                                       /\ s[2].claims.sub = IdToString(h.uid)
                                       /\ s[2].claims.email = h.email]_vars

\* a callback signed in to an account that an earlier request had created
C23_Witness ==
    \E h \in hist, g \in hist :
        /\ h.op = "oauth_callback" /\ h.res = Ok /\ "user" \notin h.wrote
        /\ "last_login" \in h.wrote
        /\ g.n < h.n /\ g.uid = h.uid /\ "user" \in g.wrote
        /\ Len(users) = 3

\* C24: once a callback has returned, with success or with an error, the
\* account it provisioned has email_verified = true.
C24_ProvisionedAccountVerified ==
    \A h \in hist :
        (h.op = "oauth_callback" /\ "user" \in h.wrote)
            => users[h.uid].is_email_verified

\* the rows of user_oauth_connections of an account and a provider
ConnectionRows(uid, provider) ==
    {c \in conns : c.user_id = uid /\ c.provider = provider}

C26_SuccessLeavesConnection ==
    [][\A h \in hist' \ hist :
           (h.op = "oauth_callback" /\ h.res = Ok)
               => ConnRow(h.uid, h.provider, h.sub, h.email, h.n) \in conns']_vars

-----------------------------------------------------------------------------
(* Claims on token cleanup *)

\* C27: a run of delete_expired removes exactly the tokens whose expires_at is
\* before the current time, redeemed or not, leaves every other token as it
\* was, and a second run at the same time would find nothing to remove.
C27_CleanupRemovesExactlyExpired ==
    [][Cardinality(tokens') < Cardinality(tokens)
           => /\ tokens' = {r \in tokens : ~(r.expires_at < now)}
              /\ now' = now
              /\ tokens' \ DeleteExpiredRows' = tokens']_vars

\* at time 2 the expired tokens, the unredeemed tokA and the redeemed tokB,
\* are gone and the valid tokC is still there
C27_Witness ==
    /\ now = 2
    /\ {r.token : r \in tokens} = {"tokC"}
    /\ \E r \in tokens : r.expires_at = EmailVerificationExpiresIn

-----------------------------------------------------------------------------
(* Claims on the last-login update of login *)

\* C28: a login whose credentials verified returns the session pair it
\* minted, whether or not its last-login update completed.
C28_LoginIgnoresLastLoginFailure ==
    \A h \in hist :
        (/\ h.op = "login"
         /\ h.uid # 0
         /\ verify_password(h.password, users[h.uid].password_hash) = Ok)
            => h.res = Ok /\ h.session # {}

-----------------------------------------------------------------------------
(* Claims on the normalization of profiles *)

\* "<provider>.user"
PlaceholderDomain(provider) ==
    CASE provider = "github" -> "github.user"
      [] provider = "google" -> "google.user"
      [] provider = "gitlab" -> "gitlab.user"

\* C29: normalizing a profile without email gives
\* <native-username>@<provider>.user, a profile with an email gives that email
\* unchanged, and the same provider and profile give the same result on every
\* call.
C29_PlaceholderEmail ==
    /\ \A h \in hist :
           h.op = "extract_user_info"
               => LET user_info == Unwrap(h.user_info)
                  IN  /\ h.res = Ok
                      /\ h.email = IF IsSome(user_info.email)
                                   THEN Unwrap(user_info.email)
                                   ELSE Email(user_info.login, PlaceholderDomain(h.provider))
    /\ \A h \in hist, g \in hist :
           (/\ h.op = "extract_user_info" /\ g.op = "extract_user_info"
            /\ h.provider = g.provider /\ h.user_info = g.user_info)
               => h.res = g.res /\ h.email = g.email

-----------------------------------------------------------------------------
(* Claims on concurrent password-reset requests *)

\* C30: when two request_password_reset calls for the same account have both
\* returned, however their invalidate and create steps interleaved and also
\* when an invalidation failed, the account has at most one redeemable
\* password_reset token.
C30_InterleavedResetsLeaveOneToken ==
    \A h \in hist, g \in hist :
        (/\ h.op = "request_password_reset" /\ g.op = "request_password_reset"
         /\ h.n < g.n /\ h.uid = g.uid /\ h.uid \in UserIds
         /\ Quiescent)
            => Cardinality(RedeemableOf(h.uid, TOKEN_TYPE_PASSWORD_RESET)) <= 1

-----------------------------------------------------------------------------
(* Claims on concurrent redemption and on the cleanup between requests *)

\* C31: for one password_reset token and any interleaving of concurrent
\* reset_password calls with different new passwords, the account's
\* password hash is replaced at most once (every replacement starts from the
\* hash the account had before the token was redeemed), and once the calls
\* have returned the hash in place is the one of the call that returned
\* success.
C31_OneReplacementBySuccess ==
    /\ [][\A id \in UserIds :
            users'[id].password_hash # users[id].password_hash
                => users[id].password_hash = Alice.password_hash]_vars
    /\ [](NoResetInFlight =>
            \A h \in hist :
                h.op = "reset_password" /\ h.res = Ok
                    => users[h.uid].password_hash = h.hash)

RowPresent(tid) == \E r \in tokens : r.id = tid

\* the cleanup deleted only expired rows, and no token was redeemed twice:
\* used_at is written only while it is null, and at most one redemption of a
\* token returned success
SweepSparesAndRedeemsOnce ==
    /\ \A r \in tokens :
        (\A r2 \in tokens' : r2.id # r.id) => r.expires_at < now
    /\ \A r \in tokens : \A r2 \in tokens' :
        r2.id = r.id /\ r2.used_at # r.used_at => IsNone(r.used_at)
    /\ \A tid \in 1..tokenSeq' : Cardinality(SuccessesOn(tid))' <= 1

-----------------------------------------------------------------------------
(* Claims on single use *)

\* a token that verify_token refuses for good: redeemed, or at or past its
\* expiry at time t
Spent(r, t) == IsSome(r.used_at) \/ r.expires_at <= t

\* C33: once a token's used_at is non-null no statement sets it back to null
\* or overwrites it (mark_as_used and invalidate_by_user_and_type write only
\* rows whose used_at is null, and they write the current time), a token
\* that is redeemed or expired stays so, and verify_token never accepts a
\* token that is redeemed or expired.
C33_UsedAtIsFinal ==
    /\ [][\A r \in tokens : \A r2 \in tokens' :
            r2.id = r.id =>
                /\ IsSome(r.used_at) => r2.used_at = r.used_at
                /\ r2.used_at # r.used_at => r2.used_at = Some(now)
                /\ Spent(r, now) => Spent(r2, now')]_vars
    /\ [](\A token \in TokenStrings, type \in TokenTypes :
            \A r \in VerifyTokenRows(token, type) : ~Spent(r, now))

\* C33 witness: tokA was redeemed, a later invalidate_by_user_and_type for
\* its owner and purpose ran and left its used_at as it was, and verify_token
\* refuses tokA while it accepts the email_verification token.
C33_Witness ==
    \E r \in tokens, g \in hist :
        /\ r.token = "tokA" /\ IsSome(r.used_at)
        /\ g.op = "invalidate_by_user_and_type" /\ g.res = Ok
        /\ Some(g.uid) = r.user_id /\ g.candidate = r.type
        /\ Unwrap(r.used_at) < g.at
        /\ VerifyTokenRows("tokA", r.type) = {}
        /\ VerifyTokenRows("tokC", TOKEN_TYPE_EMAIL_VERIFICATION) # {}

-----------------------------------------------------------------------------
(* Claims on the purpose of a token *)

\* the purpose a redemption operation asks verify_token for
PurposeOf(op) ==
    IF op = "verify_email_token" THEN TOKEN_TYPE_EMAIL_VERIFICATION
    ELSE TOKEN_TYPE_PASSWORD_RESET

\* the token string names a row of another purpose than the operation's
WrongPurpose(op, token) ==
    \E r \in tokens : r.token = token /\ r.type # PurposeOf(op)

\* C34: a password_reset token is never accepted by verify_email_token and an
\* email_verification token is never accepted by reset_password: the
\* wrong-purpose attempt does not get past the validity read, it returns an
\* error in that step, and the step leaves the tokens and the accounts
\* (password hash, email_verified flag) as they were.
C34_PurposeIsChecked ==
    [][/\ \A p \in Procs :
            /\ procs[p].pc = "idle" /\ procs'[p].pc # "idle"
            /\ procs'[p].op \in RedemptionOps
            => /\ ~WrongPurpose(procs'[p].op, procs'[p].token)
               /\ \E r \in tokens : /\ r.id = procs'[p].tid
                                    /\ r.type = PurposeOf(procs'[p].op)
       /\ \A h \in hist' \ hist :
            h.op \in RedemptionOps /\ WrongPurpose(h.op, h.token)
            => h.res # Ok /\ tokens' = tokens /\ users' = users
      ]_vars

\* C34 witness: with no statement failing, verify_email_token was refused the
\* password_reset token tokB and reset_password, given a strong password, was
\* refused the email_verification token tokA, both tokens being redeemable.
C34_Witness ==
    /\ faults = 0
    /\ \E h \in hist, g \in hist :
        /\ h.op = "verify_email_token" /\ h.token = "tokB"
        /\ h.res = InvalidVerificationToken
        /\ g.op = "reset_password" /\ g.token = "tokA"
        /\ g.res = InvalidResetToken
    /\ \A r \in tokens : Redeemable(r)
    /\ Cardinality(tokens) = 2
    /\ users = <<Alice, Bob>>

-----------------------------------------------------------------------------
(* Claims on the username of a provisioned account *)

HeldUsername(username) == \E id \in UserIds : users[id].username = username

-----------------------------------------------------------------------------
(* Claims on the cleanup task *)

PastExpiry(id) == \E r \in tokens : r.id = id /\ r.expires_at < now

\* the tokens held when the cleanup task starts
TokensAtStart == {1, 2, 3}

\* C36: the cleanup task runs delete_expired again and again, a failed run
\* is followed by later runs, and when the database eventually accepts a
\* delete every token past its expiry is eventually deleted.
C36_ExpiredEventuallyDeleted ==
    \A id \in TokensAtStart : PastExpiry(id) ~> ~RowPresent(id)

\* C36 witness: with no request made, a run of the cleanup failed and a later
\* run deleted the token that expired at 0.
C36_Witness ==
    /\ calls = 0
    /\ faults > 0
    /\ now > 0
    /\ ~RowPresent(1)

-----------------------------------------------------------------------------
(* Claims on the account behind a session token *)

\* the account a token names exists, is not soft-deleted and is active
AccountInGoodStanding(jwt) ==
    /\ IsSome(ParseUuid(jwt.claims.sub))
    /\ LET uid == Unwrap(ParseUuid(jwt.claims.sub))
       IN  uid \in UserIds /\ ~users[uid].deleted /\ users[uid].is_active

RefreshOps == {"refresh_token", "refresh_access_token"}

\* C37: a refresh, by AuthService::refresh_access_token or by the
\* refresh_token handler, yields a new access token only if the account named
\* by the presented token exists, is not soft-deleted and is active at the
\* time of the refresh.
C37_RefreshOnlyInGoodStanding ==
    [][\A h \in hist' \ hist :
            h.op \in RefreshOps /\ h.res = Ok
                => AccountInGoodStanding(Unwrap(h.jwt))]_vars

\* C38: a request passes require_auth only if its bearer token verifies and
\* the account named by its subject exists, is not soft-deleted and is
\* active at the time of the request; so no token minted before an account
\* was soft-deleted or deactivated passes afterwards.
C38_RequireAuthOnlyInGoodStanding ==
    [][\A h \in hist' \ hist :
            h.op = "require_auth" /\ h.res = Ok
                => /\ WellSigned(Unwrap(h.jwt))
                   /\ Unwrap(h.jwt).claims.exp >= now
                   /\ Unwrap(h.jwt) \in Minted
                   /\ AccountInGoodStanding(Unwrap(h.jwt))]_vars

\* C38 witness: with no statement failing, alice's valid token passed
\* require_auth before her account was deactivated and was refused
\* afterwards.
C38_Witness ==
    /\ faults = 0
    /\ \E h \in hist, g \in hist :
        /\ h.op = "require_auth" /\ g.op = "require_auth"
        /\ h.jwt = g.jwt /\ h.n < g.n
        /\ h.res = Ok
        /\ g.res = Err("Authentication", "Account is not active")
        /\ verify_token(Unwrap(g.jwt), g.at) = Ok

\* C39: starting from the session pair minted at SessionStart, no sequence of
\* refreshes, each given any token obtained so far, produces a token whose
\* expiry lies later than SessionStart + refresh_token_expiration +
\* jwt_expiration.
C39_SessionNotExtendedForever ==
    \A jwt \in Minted :
        jwt.claims.exp <= SessionStart + RefreshTokenExpiration + JwtExpiration

-----------------------------------------------------------------------------
(* Claims on the identity behind a connection *)

\* C40: after any sequence of OAuth callbacks, each (provider,
\* provider-native user id) pair is linked by connection rows to at most one
\* account, and every successful callback of a provider identity resolved to
\* one and the same account, also when the provider reported another email.
C40_OneAccountPerIdentity ==
    /\ \A c \in conns, d \in conns :
        c.provider = d.provider /\ c.provider_user_id = d.provider_user_id
            => c.user_id = d.user_id
    /\ \A h \in hist, g \in hist :
        /\ h.op = "oauth_callback" /\ g.op = "oauth_callback"
        /\ h.res = Ok /\ g.res = Ok
        /\ h.provider = g.provider /\ h.sub = g.sub
        => h.uid = g.uid

====
